---- MODULE Spec2Model ----
(***************************************************************************)
(* A model of the CrustyClaw core: the policy engine, the authentication  *)
(* type-state machine and the transparent authentication of the CLI, the  *)
(* secret store and the credential proxy, the daemon's config reload and   *)
(* shutdown handling, and the sandbox isolation engine.                    *)
(*                                                                         *)
(* Each subsystem has its own variables, initial predicate, actions and   *)
(* specification.  A specification lets one subsystem run and leaves the  *)
(* variables of the others at their initial values.                       *)
(***************************************************************************)
EXTENDS Integers, Sequences, FiniteSets, TLC

VARIABLES
    \* PolicyEngine (crustyclaw-config/src/policy.rs)
    rules,          \* PolicyEngine.rules : insertion-ordered Vec<PolicyRule>
    sorted,         \* PolicyEngine.sorted: cached sorted view
    dirty,          \* PolicyEngine.dirty
    lastEval,       \* the request and the decision of the latest evaluate call
    \* Session<S> (crustyclaw-core/src/auth.rs)
    session,        \* the session token: its type-state S and the fields of S
    authOut,        \* the call that authorized the session, and its arguments
    \* SecretStore (crustyclaw-core/src/secrets.rs)
    secrets,        \* SecretStore.secrets: name -> SecretEntry
    sources,        \* SecretStore.sources: name -> SecretSource
    \* CredentialProxy (crustyclaw-core/src/isolation/credential_proxy.rs)
    mappings,       \* CredentialProxy.mappings: Vec<SentinelMapping>
    proxyOut,       \* what the latest proxy call returned
    storeOut,       \* what the latest call on the store returned, when it is recorded
    \* Daemon (crustyclaw-core/src/daemon.rs) and its environment
    file,           \* the file at config_path: NoneOpt when there is none
    pc,             \* where the daemon is: off, failed, created, select, reloading, done
    config,         \* Daemon.config
    config_tx,      \* the config watch channel: the values sent, the last is current
    watchers,       \* the receivers handed out by config_watcher
    reload_log,     \* what the latest reload_config logged
    shutdown_rx,    \* the shutdown receiver of run: unsubscribed, empty, ready, lagged
    sighup,         \* the SIGHUP stream of run has a signal to deliver
    sigterm,        \* the SIGTERM stream of run has a signal to deliver
    ctrl_c,         \* the ctrl_c() listener of the current select! has a signal
    sighups,        \* SIGHUPs delivered so far
    triggered,      \* a shutdown trigger occurred while the daemon ran
    sent,           \* a ShutdownSignal was sent on the shutdown channel
    \* Sandbox (crustyclaw-core/src/isolation.rs) and its backends
    isolation,      \* the isolation section of the loaded AppConfig
    sandbox,        \* what the latest Sandbox::new returned, NoneOpt before
    execs,          \* per calling task: its call of Sandbox::execute and the child
    \* IPC server and client (crustyclaw-core/src/ipc/server.rs, ipc/client.rs)
    sock,           \* what is at the socket path: none, stale, foreign, bound
    server,         \* where serve is: off, serving, draining, exited_ok, exited_err
    ipc_rx,         \* the shutdown receiver handed to serve: empty, ready, dropped
    client,         \* the request of the client: its method, its stage, its result
    \* Message bus (crustyclaw-core/src/daemon.rs, message_tx)
    bus,            \* the broadcast channel: every envelope sent, in send order
    subs,           \* per subscriber: its cursor and what recv returned so far
    \* Secret staging (crustyclaw-core/src/secrets.rs, stage_file_injections)
    staging,        \* the files of staging_dir: name -> mode and content
    stage,          \* stage_file_injections: the injections left, its position
    \* TrustBasedSelector (crustyclaw-core isolation) and the Docker backend
    trustOut,       \* the host, the tier and the backend of the latest select
    dockerOut,      \* the argument lists of two build_args calls
    \* Envelope (crustyclaw-core/src/message.rs)
    envelopes,      \* the NEXT_ID counters and the envelopes created so far
    \* RateLimiter (crustyclaw-signal/src/rate_limit.rs)
    limiter,        \* the limiter, the clock, and what check returned so far
    \* LogCollector (crustyclaw-core/src/logging.rs)
    logbuf,         \* the LogBuffer and the events logged so far
    \* LogsPanel / MessagesPanel (crustyclaw-tui/src/panels)
    panel           \* the panel and its latest PanelState call

policyVars == <<rules, sorted, dirty, lastEval>>
authVars == <<session, authOut>>
credVars == <<secrets, sources, mappings, proxyOut, storeOut>>
signalVars == <<shutdown_rx, sighup, sigterm, ctrl_c, sighups, triggered, sent>>
daemonVars == <<file, pc, config, config_tx, watchers, reload_log, signalVars>>
sandboxVars == <<isolation, sandbox, execs>>
ipcVars == <<sock, server, ipc_rx, client>>
busVars == <<bus, subs>>
stageVars == <<staging, stage>>
lateVars == <<trustOut, dockerOut, envelopes, limiter, logbuf, panel>>
restVars == <<ipcVars, busVars, stageVars, lateVars>>

vars == <<policyVars, authVars, credVars, daemonVars, sandboxVars, restVars>>

\* What the actions of one subsystem leave unchanged: the other subsystems.
nonPolicyVars == <<authVars, credVars, daemonVars, sandboxVars, restVars>>
nonAuthVars == <<policyVars, credVars, daemonVars, sandboxVars, restVars>>
nonCredVars == <<policyVars, authVars, daemonVars, sandboxVars, restVars>>
nonDaemonVars == <<policyVars, authVars, credVars, sandboxVars, restVars>>
nonSandboxVars == <<policyVars, authVars, credVars, daemonVars, restVars>>
oldVars == <<policyVars, authVars, credVars, daemonVars, sandboxVars>>
nonIpcVars == <<oldVars, busVars, stageVars, lateVars>>
nonBusVars == <<oldVars, ipcVars, stageVars, lateVars>>
nonStageVars == <<oldVars, ipcVars, busVars, lateVars>>
midVars == <<oldVars, ipcVars, busVars, stageVars>>
nonTrustVars == <<midVars, dockerOut, envelopes, limiter, logbuf, panel>>
nonDockerVars == <<midVars, trustOut, envelopes, limiter, logbuf, panel>>
nonEnvelopeVars == <<midVars, trustOut, dockerOut, limiter, logbuf, panel>>
nonLimiterVars == <<midVars, trustOut, dockerOut, envelopes, logbuf, panel>>
nonLogVars == <<midVars, trustOut, dockerOut, envelopes, limiter, panel>>
nonPanelVars == <<midVars, trustOut, dockerOut, envelopes, limiter, logbuf>>

(***************************************************************************)
(* Bounds of the model.                                                    *)
(***************************************************************************)
MaxRules == 2

\* Option<T>: the empty sequence is None, a one-element sequence is Some(x).
NoneOpt == <<>>
Some(x) == <<x>>
IsSome(o) == o # <<>>
Unwrap(o) == o[1]

\* A HashMap is a function on its set of keys.
\* HashMap::insert
MapInsert(m, k, v) == [x \in DOMAIN m \cup {k} |-> IF x = k THEN v ELSE m[x]]

\* HashMap::remove
MapRemove(m, k) == [x \in DOMAIN m \ {k} |-> m[x]]

EmptyMap == [x \in {} |-> x]

(***************************************************************************)
(* Policy engine.                                                          *)
(***************************************************************************)
\* Effect is "Allow" or "Deny"; PolicyDecision is "Allowed", "Denied" or
\* "NoMatch".
\* The patterns rules are written with, and the literals requests carry.
RulePatterns == {"*", "user"}
RuleActions == {"*", "write"}
RuleResources == {"*"}
ReqRoles == {"user", "guest"}
ReqActions == {"read", "write"}
ReqResources == {"secrets"}

RulePriorities == {0, 1, 100}

PolicyRule ==
    [role: RulePatterns, action: RuleActions, resource: RuleResources,
     effect: {"Allow", "Deny"}, priority: RulePriorities]

\* PolicyRule::matches
Matches(rule, role, action, resource) ==
    /\ (rule.role = "*" \/ rule.role = role)
    /\ (rule.action = "*" \/ rule.action = action)
    /\ (rule.resource = "*" \/ rule.resource = resource)

\* The comparator of rebuild's sort_by, |a, b| b.priority.cmp(&a.priority):
\* TRUE when a must come strictly before b.
Before(a, b) == b.priority < a.priority

BeforeAscending(a, b) == a.priority < b.priority

\* Vec::sort_by is a stable sort: an element is placed after every element
\* that does not compare greater than it.  InsertSorted places x into the
\* already sorted s behind all elements that x does not precede.
RECURSIVE InsertSortedUnstable(_, _)
InsertSortedUnstable(s, x) ==
    IF s = <<>> THEN <<x>>
    ELSE IF Before(Head(s), x) THEN <<Head(s)>> \o InsertSortedUnstable(Tail(s), x)
         ELSE <<x>> \o s

RECURSIVE InsertSorted(_, _)
InsertSorted(s, x) ==
    IF s = <<>> THEN <<x>>
    ELSE IF Before(x, Head(s)) THEN <<x>> \o s
         ELSE <<Head(s)>> \o InsertSorted(Tail(s), x)

RECURSIVE SortByPriority(_)
SortByPriority(s) ==
    IF s = <<>> THEN <<>>
    ELSE InsertSorted(SortByPriority(SubSeq(s, 1, Len(s) - 1)), s[Len(s)])

\* The scan of evaluate over the sorted view: the first matching rule decides.
RECURSIVE Scan(_, _, _, _)
Scan(s, role, action, resource) ==
    IF s = <<>> THEN "NoMatch"
    ELSE IF Matches(Head(s), role, action, resource)
         THEN (IF Head(s).effect = "Allow" THEN "Allowed" ELSE "Denied")
         ELSE Scan(Tail(s), role, action, resource)

\* An evaluate that never rebuilds: the cached view is scanned as it is.
SortedViewStale == sorted

\* The sorted view evaluate scans: rebuilt from rules when dirty.
SortedView == IF dirty THEN SortByPriority(rules) ELSE sorted

InitPolicy ==
    /\ rules = <<>>
    /\ sorted = <<>>
    /\ dirty = TRUE
    /\ lastEval = NoneOpt

\* PolicyEngine::add_rule
AddRule ==
    /\ Len(rules) < MaxRules
    /\ \E rule \in PolicyRule : rules' = Append(rules, rule)
    /\ dirty' = TRUE
    /\ UNCHANGED <<sorted, lastEval>>
    /\ UNCHANGED nonPolicyVars

\* PolicyEngine::evaluate (with the rebuild it calls when dirty)
Evaluate ==
    \E role \in ReqRoles, action \in ReqActions, resource \in ReqResources :
        /\ sorted' = SortedView
        /\ dirty' = FALSE
        /\ lastEval' = Some([role |-> role, action |-> action, resource |-> resource,
                             decision |-> Scan(SortedView, role, action, resource),
                             nrules |-> Len(rules),
                             stale |-> IsSome(lastEval) /\ Len(sorted) < Len(rules)])
        /\ UNCHANGED rules
        /\ UNCHANGED nonPolicyVars

NextPolicy == AddRule \/ Evaluate

\* The rules, among those present at the evaluation e, that match its request.
MatchingAt(e) ==
    {i \in 1..e.nrules : Matches(rules[i], e.role, e.action, e.resource)}

Winner(e) ==
    CHOOSE i \in MatchingAt(e) :
        \A j \in MatchingAt(e) :
            \/ rules[j].priority < rules[i].priority
            \/ (rules[j].priority = rules[i].priority /\ j >= i)

(***************************************************************************)
(* C1: evaluate returns the effect of the matching rule of highest         *)
(* priority, the earliest inserted among equal priorities, and NoMatch     *)
(* when no rule matches.                                                   *)
(***************************************************************************)
C1_EvaluateFirstMatch ==
    IsSome(lastEval) =>
        LET e == Unwrap(lastEval) IN
        IF MatchingAt(e) = {}
        THEN e.decision = "NoMatch"
        ELSE e.decision = (IF rules[Winner(e)].effect = "Allow" THEN "Allowed" ELSE "Denied")

\* An evaluation decided by insertion order among equal priorities: two
\* matching rules of the same priority and opposite effects.
C1_Witness ==
    /\ IsSome(lastEval)
    /\ LET e == Unwrap(lastEval) IN
       /\ \E i, j \in MatchingAt(e) :
             /\ i < j
             /\ rules[i].priority = rules[j].priority
             /\ rules[i].effect # rules[j].effect
             /\ Winner(e) = i

\* s and t hold the same rules, each as many times.
SameRules(s, t) ==
    /\ Len(s) = Len(t)
    /\ \A k \in 1..Len(s) :
          Cardinality({i \in 1..Len(s) : s[i] = s[k]}) = Cardinality({i \in 1..Len(t) : t[i] = s[k]})

(***************************************************************************)
(* C13: after any mutation the sorted view is rebuilt before it is         *)
(* scanned.  A view that is not marked dirty is the one the latest         *)
(* evaluate scanned, and it holds exactly the rules added so far; every    *)
(* evaluate decided against all the rules added before it, returning       *)
(* NoMatch only when none of them matched, a rule added after an earlier   *)
(* evaluation included.                                                    *)
(***************************************************************************)
C13_RebuiltBeforeScan ==
    /\ ~dirty =>
          /\ SameRules(sorted, rules)
          /\ IsSome(lastEval)
          /\ LET e == Unwrap(lastEval) IN
             /\ e.nrules = Len(rules)
             /\ e.decision = Scan(sorted, e.role, e.action, e.resource)
    /\ IsSome(lastEval) =>
          LET e == Unwrap(lastEval) IN
          (e.decision = "NoMatch") <=> (MatchingAt(e) = {})

\* An evaluation that found the view of an earlier evaluation, one rule
\* short, and was decided by the rule added since.
C13_Witness ==
    /\ IsSome(lastEval)
    /\ LET e == Unwrap(lastEval) IN
       /\ e.stale
       /\ e.nrules = 2
       /\ MatchingAt(e) = {2}
       /\ e.decision = "Allowed"
    /\ ~dirty

(***************************************************************************)
(* Authentication type-state machine.                                      *)
(***************************************************************************)
MaxRoles == 2

\* The type-state S of Session<S> is "Unauthenticated", "Authenticated" or
\* "Authorized".
\* LocalIdentity::from_parts: is_privileged <=> uid == 0
LocalIdentity(username, uid) ==
    [username |-> username, uid |-> uid, is_privileged |-> (uid = 0)]

\* What LocalIdentity::detect can find on the host.
DetectedIdentities ==
    {LocalIdentity("alice", 1000), LocalIdentity("root", 0), LocalIdentity("operator", 1001)}

\* Identities a caller passes to authenticate.
Identities == {"alice", "bob", "admin"}

RoleNames == {"admin", "operator", "user", "alice"}

\* The role vectors a caller passes to authorize, the empty vector included.
RECURSIVE SeqsUpTo(_, _)
SeqsUpTo(S, n) ==
    IF n = 0 THEN {<<>>}
    ELSE SeqsUpTo(S, n - 1) \cup
         {Append(q, x) : q \in {r \in SeqsUpTo(S, n - 1) : Len(r) = n - 1}, x \in S}

RoleVectors == SeqsUpTo(RoleNames, MaxRoles)

\* LocalIdentity::default_role
DefaultRole(li) == IF li.is_privileged THEN "admin" ELSE li.username

\* The policy engines a caller passes to authorize_with_policy.
Rule(role, action, resource, effect, priority) ==
    [role |-> role, action |-> action, resource |-> resource,
     effect |-> effect, priority |-> priority]

AuthRules ==
    {Rule("*", "auth", "session", "Allow", 0),
     Rule("operator", "auth", "session", "Allow", 0),
     Rule("admin", "auth", "session", "Deny", 100),
     Rule("*", "assume", "*", "Allow", 0),
     Rule("alice", "assume", "operator", "Allow", 1),
     Rule("alice", "assume", "admin", "Deny", 100)}

AuthEngines == SeqsUpTo(AuthRules, MaxRules)

\* PolicyEngine::is_allowed on an engine holding the rules rs
IsAllowed(rs, role, action, resource) ==
    Scan(SortByPriority(rs), role, action, resource) = "Allowed"

Contains(s, x) == \E i \in 1..Len(s) : s[i] = x

\* A candidate loop that leaves out the "assume" check on the identity.
RECURSIVE GrantRolesAuthOnly(_, _, _, _)
GrantRolesAuthOnly(rs, identity, roles, cs) ==
    IF cs = <<>> THEN roles
    ELSE LET candidate == Head(cs)
             granted ==
                 /\ IsAllowed(rs, candidate, "auth", "session")
                 /\ ~Contains(roles, candidate)
         IN GrantRolesAuthOnly(rs, identity,
                               IF granted THEN Append(roles, candidate) ELSE roles,
                               Tail(cs))

\* The candidate loop of authorize_with_policy, over the candidates cs.
RECURSIVE GrantRoles(_, _, _, _)
GrantRoles(rs, identity, roles, cs) ==
    IF cs = <<>> THEN roles
    ELSE LET candidate == Head(cs)
             granted ==
                 /\ IsAllowed(rs, candidate, "auth", "session")
                 /\ ~Contains(roles, candidate)
                 /\ IsAllowed(rs, identity, "assume", candidate)
         IN GrantRoles(rs, identity,
                       IF granted THEN Append(roles, candidate) ELSE roles,
                       Tail(cs))

Candidates == <<"admin", "operator", "user", "viewer">>

\* The impl blocks of Session<S>: which state a transition is defined on.
OnUnauthenticated(s) == s.state = "Unauthenticated"

OnAnyUnauthorized(s) == s.state # "Authorized"

OnAuthenticated(s) == s.state = "Authenticated"

\* Session::new
NewSession ==
    [state |-> "Unauthenticated", identity |-> "", local |-> NoneOpt, roles |-> <<>>]

InitAuth ==
    /\ session = NewSession
    /\ authOut = NoneOpt

SessionNew ==
    /\ session # NewSession
    /\ session' = NewSession
    /\ authOut' = NoneOpt
    /\ UNCHANGED nonAuthVars

\* Session<Unauthenticated>::authenticate
Authenticate ==
    /\ OnUnauthenticated(session)
    /\ \E identity \in Identities :
          session' = [state |-> "Authenticated", identity |-> identity,
                      local |-> NoneOpt, roles |-> <<>>]
    /\ UNCHANGED authOut
    /\ UNCHANGED nonAuthVars

\* Session<Unauthenticated>::authenticate_local
AuthenticateLocal ==
    /\ OnUnauthenticated(session)
    /\ \E local \in DetectedIdentities :
          session' = [state |-> "Authenticated", identity |-> local.username,
                      local |-> Some(local), roles |-> <<>>]
    /\ UNCHANGED authOut
    /\ UNCHANGED nonAuthVars

\* Session<Authenticated>::authorize
Authorize ==
    /\ OnAuthenticated(session)
    /\ \E rv \in RoleVectors :
          /\ session' = [session EXCEPT !.state = "Authorized", !.roles = rv]
          /\ authOut' = Some([op |-> "authorize", roles |-> rv, engine |-> <<>>])
    /\ UNCHANGED nonAuthVars

\* Session<Authenticated>::authorize_with_policy
AuthorizeWithPolicy ==
    /\ OnAuthenticated(session)
    /\ \E rs \in AuthEngines :
          LET default_role ==
                  IF IsSome(session.local) THEN DefaultRole(Unwrap(session.local))
                  ELSE session.identity
          IN /\ session' = [session EXCEPT
                               !.state = "Authorized",
                               !.roles = GrantRoles(rs, session.identity,
                                                    <<default_role>>, Candidates)]
             /\ authOut' = Some([op |-> "authorize_with_policy", roles |-> <<>>,
                                 engine |-> rs])
    /\ UNCHANGED nonAuthVars

NextAuth == SessionNew \/ Authenticate \/ AuthenticateLocal \/ Authorize
            \/ AuthorizeWithPolicy

(***************************************************************************)
(* C2: a session becomes Authorized only from Authenticated, and           *)
(* Authenticated only from Unauthenticated; no step takes an               *)
(* Unauthenticated session to Authorized.                                  *)
(***************************************************************************)
C2_NoBypass ==
    [][/\ (session'.state = "Authorized" /\ session.state # "Authorized")
            => session.state = "Authenticated"
       /\ (session'.state = "Authenticated" /\ session.state # "Authenticated")
            => session.state = "Unauthenticated"
       /\ ~(session.state = "Unauthenticated" /\ session'.state = "Authorized")]_vars

\* A session authorized by policy after a local authentication, holding a
\* granted role besides its default role.
C2_Witness ==
    /\ session.state = "Authorized"
    /\ IsSome(session.local)
    /\ Len(session.roles) > 1

(***************************************************************************)
(* C14: roles are non-empty in Authorized, whether the session was         *)
(* authorized by authorize with a caller-supplied vector or by             *)
(* authorize_with_policy.                                                  *)
(***************************************************************************)
C14_RolesNonEmpty ==
    session.state = "Authorized" => Len(session.roles) > 0

\* Both checks authorize_with_policy makes for the candidate c, on the
\* engine e and for the identity of the session.
BothAllow(e, c) ==
    /\ Scan(SortByPriority(e), c, "auth", "session") = "Allowed"
    /\ Scan(SortByPriority(e), session.identity, "assume", c) = "Allowed"

RuleConfig(r) == [r EXCEPT !.effect = IF r.effect = "Allow" THEN "allow" ELSE "deny"]

\* The [policy] sections of the configs a command loads.
PolicyConfigs ==
    {[rules |-> [i \in 1..Len(rs) |-> RuleConfig(rs[i])], default_effect |-> d] :
        rs \in AuthEngines, d \in {"allow", "deny"}}

\* The [auth.role_map] tables of the configs a command loads.
RoleMaps ==
    {EmptyMap, "alice" :> "operator", "alice" :> "alice", "root" :> "admin",
     "root" :> "operator", "bob" :> "admin" @@ "operator" :> "user"}

\* A build_policy_engine that ignores default_effect.
BuildPolicyEngineNoDefault(policy) ==
    [i \in 1..Len(policy.rules) |->
        [policy.rules[i] EXCEPT !.effect = IF policy.rules[i].effect = "allow"
                                           THEN "Allow" ELSE "Deny"]]

\* AppConfig::build_policy_engine: the rules of the engine it returns
BuildPolicyEngine(policy) ==
    [i \in 1..Len(policy.rules) |->
        [policy.rules[i] EXCEPT !.effect = IF policy.rules[i].effect = "allow"
                                           THEN "Allow" ELSE "Deny"]]
    \o (IF policy.default_effect = "allow"
        THEN <<Rule("*", "*", "*", "Allow", 0)>>
        ELSE <<>>)

\* A role_map branch that forgets the default role.
MappedRolesOnly(mapped_role, local) == <<mapped_role>>

\* The role_map branch of transparent_auth: the roles it authorizes with.
MappedRoles(mapped_role, local) ==
    IF IsSome(local) /\ DefaultRole(Unwrap(local)) # mapped_role
    THEN <<mapped_role, DefaultRole(Unwrap(local))>>
    ELSE <<mapped_role>>

\* transparent_auth, which each command calls once with the config it
\* loaded: Session::new().authenticate_local(), then authorize or
\* authorize_with_policy.
TransparentAuth ==
    /\ authOut = NoneOpt
    /\ \E detected \in DetectedIdentities, role_map \in RoleMaps, policy \in PolicyConfigs :
          LET identity == detected.username
              local == Some(detected)
              roles ==
                  IF identity \in DOMAIN role_map
                  THEN MappedRoles(role_map[identity], local)
                  ELSE GrantRoles(BuildPolicyEngine(policy), identity,
                                  <<DefaultRole(Unwrap(local))>>, Candidates)
          IN /\ session' = [state |-> "Authorized", identity |-> identity,
                            local |-> local, roles |-> roles]
             /\ authOut' = Some([op |-> "transparent_auth", roles |-> <<>>,
                                 engine |-> <<>>,
                                 config |-> [auth |-> [role_map |-> role_map],
                                             policy |-> policy]])
    /\ UNCHANGED nonAuthVars

NextCli == TransparentAuth

(***************************************************************************)
(* C16: transparent auth authorizes the local identity.  When role_map has *)
(* an entry for it, the roles are the mapped role followed by the local    *)
(* default role when that differs from the mapped role: role_map {alice:   *)
(* operator} with the local identity alice, uid 1000, gives the roles      *)
(* [operator, alice] and the identity alice.  When there is no entry, the  *)
(* roles are those authorize_with_policy produces on the policy engine of  *)
(* the config.                                                             *)
(***************************************************************************)
C16_TransparentAuth ==
    (IsSome(authOut) /\ Unwrap(authOut).op = "transparent_auth") =>
        LET cfg == Unwrap(authOut).config
            li == Unwrap(session.local)
            default == IF li.uid = 0 THEN "admin" ELSE li.username
        IN /\ session.state = "Authorized"
           /\ session.identity = li.username
           /\ IF session.identity \in DOMAIN cfg.auth.role_map
              THEN LET mapped == cfg.auth.role_map[session.identity]
                   IN /\ session.roles[1] = mapped
                      /\ default # mapped => session.roles = <<mapped, default>>
                      /\ default = mapped => session.roles = <<mapped>>
              ELSE session.roles =
                     GrantRoles(BuildPolicyEngine(cfg.policy), session.identity,
                                <<default>>, Candidates)
           /\ (cfg.auth.role_map = ("alice" :> "operator") /\ li = LocalIdentity("alice", 1000))
                 => (session.roles = <<"operator", "alice">> /\ session.identity = "alice")

\* role_map {alice: operator} and the local identity alice, uid 1000: the
\* session holds the roles [operator, alice].
C16_Witness ==
    /\ IsSome(authOut)
    /\ Unwrap(authOut).op = "transparent_auth"
    /\ Unwrap(authOut).config.auth.role_map = ("alice" :> "operator")
    /\ session.local = Some(LocalIdentity("alice", 1000))
    /\ session.state = "Authorized"
    /\ session.identity = "alice"
    /\ session.roles = <<"operator", "alice">>

(***************************************************************************)
(* Secret store and credential proxy.  A String is a sequence of           *)
(* one-character strings; a HashMap is a function on its set of keys.      *)
(***************************************************************************)
MaxMappings == 2

\* Credential names, secret values, and the env vars of the sandbox.
CredNames == {<<"a">>, <<"b">>}
SecretValues == {<<>>, <<"s", "k">>, <<"p", "w">>}
EnvNames == {"API_KEY", "DB_PASSWORD"}
\* The env of the SandboxConfig a caller hands to inject_sentinels.
BaseEnvs == {EmptyMap, MapInsert(EmptyMap, "API_KEY", <<"o", "l", "d">>)}

\* CredentialProxy::sentinel_for: format!("__CRUSTYCLAW_SENTINEL_{name}__")
sentinel_for(name) ==
    <<"_", "_", "C", "R", "U", "S", "T", "Y", "C", "L", "A", "W", "_",
      "S", "E", "N", "T", "I", "N", "E", "L", "_">> \o name \o <<"_", "_">>

\* SecretSource::Config, Environment(var) and File(path)
SourceConfig == [kind |-> "Config", arg |-> <<>>]
SourceEnvironment(var) == [kind |-> "Environment", arg |-> var]
SourceFile(path) == [kind |-> "File", arg |-> path]

InitCred ==
    /\ secrets = EmptyMap
    /\ sources = EmptyMap
    /\ mappings = <<>>
    /\ proxyOut = NoneOpt
    /\ storeOut = NoneOpt

\* SecretStore::insert, as the owner of the store calls it beside the proxy
StoreInsert ==
    /\ \E name \in CredNames, value \in SecretValues, env_name \in EnvNames :
          LET entry == [name |-> name, value |-> value,
                        injection |-> [kind |-> "Env", env_name |-> env_name]]
          IN IF entry.value = <<>>
             THEN UNCHANGED <<secrets, sources>>
             ELSE /\ secrets' = MapInsert(secrets, name, entry)
                  /\ sources' = MapInsert(sources, name, SourceConfig)
    /\ UNCHANGED <<mappings, proxyOut, storeOut>>
    /\ UNCHANGED nonCredVars

\* SecretStore::remove
StoreRemove ==
    /\ \E name \in CredNames :
          /\ sources' = MapRemove(sources, name)
          /\ secrets' = MapRemove(secrets, name)
    /\ UNCHANGED <<mappings, proxyOut, storeOut>>
    /\ UNCHANGED nonCredVars

\* CredentialProxy::add_mapping
AddMapping ==
    /\ Len(mappings) < MaxMappings
    /\ \E name \in CredNames, env_name \in EnvNames :
          mappings' = Append(mappings,
                             [name |-> name, sentinel |-> sentinel_for(name),
                              env_name |-> env_name])
    /\ UNCHANGED <<secrets, sources, proxyOut, storeOut>>
    /\ UNCHANGED nonCredVars

\* A bug inject_sentinels could have: the env gets the secrets themselves,
\* as SecretStore::env_injections hands them out.
RECURSIVE InjectSecrets(_, _)
InjectSecrets(ms, env) ==
    IF ms = <<>> THEN env
    ELSE InjectSecrets(Tail(ms),
            IF Head(ms).name \in DOMAIN secrets
            THEN MapInsert(env, Head(ms).env_name, secrets[Head(ms).name].value)
            ELSE MapInsert(env, Head(ms).env_name, Head(ms).sentinel))

\* CredentialProxy::inject_sentinels: the env of the returned config
RECURSIVE InjectSentinelsEnv(_, _)
InjectSentinelsEnv(ms, env) ==
    IF ms = <<>> THEN env
    ELSE InjectSentinelsEnv(Tail(ms), MapInsert(env, Head(ms).env_name, Head(ms).sentinel))

\* A resolve_sentinels that passes over the credentials the store lacks.
RECURSIVE ResolveSentinelsSkipMissing(_, _, _)
ResolveSentinelsSkipMissing(ms, store, resolved) ==
    IF ms = <<>> THEN [ok |-> TRUE, map |-> resolved]
    ELSE IF Head(ms).name \notin DOMAIN store
         THEN ResolveSentinelsSkipMissing(Tail(ms), store, resolved)
         ELSE ResolveSentinelsSkipMissing(Tail(ms), store,
                  MapInsert(resolved, Head(ms).sentinel, store[Head(ms).name].value))

\* CredentialProxy::resolve_sentinels: Ok(map) or the CredentialProxy error
RECURSIVE ResolveSentinels(_, _, _)
ResolveSentinels(ms, store, resolved) ==
    IF ms = <<>> THEN [ok |-> TRUE, map |-> resolved]
    ELSE IF Head(ms).name \notin DOMAIN store
         THEN [ok |-> FALSE, map |-> EmptyMap]
         ELSE ResolveSentinels(Tail(ms), store,
                  MapInsert(resolved, Head(ms).sentinel, store[Head(ms).name].value))

\* str::replace: every non-overlapping occurrence of from, left to right
RECURSIVE StrReplace(_, _, _)
StrReplace(text, from, to) ==
    IF Len(text) < Len(from) \/ from = <<>> THEN text
    ELSE IF SubSeq(text, 1, Len(from)) = from
         THEN to \o StrReplace(SubSeq(text, Len(from) + 1, Len(text)), from, to)
         ELSE <<Head(text)>> \o StrReplace(Tail(text), from, to)

\* CredentialProxy::replace_sentinels, the HashMap iterated in the order keys
RECURSIVE ReplaceSentinels(_, _, _)
ReplaceSentinels(text, resolved, keys) ==
    IF keys = <<>> THEN text
    ELSE ReplaceSentinels(StrReplace(text, Head(keys), resolved[Head(keys)]),
                          resolved, Tail(keys))

\* The orders a HashMap with the key set S can be iterated in.
Orders(S) ==
    {q \in SeqsUpTo(S, Cardinality(S)) :
        Len(q) = Cardinality(S) /\ \A i, j \in 1..Len(q) : i # j => q[i] # q[j]}

\* Texts leaving the sandbox, handed to replace_sentinels.
OutboundTexts ==
    {<<"k", "=">> \o sentinel_for(<<"a">>),
     sentinel_for(<<"a">>) \o <<";">> \o sentinel_for(<<"b">>),
     <<"h", "i">>}

InjectSentinels ==
    /\ \E env \in BaseEnvs :
          proxyOut' = Some([op |-> "inject_sentinels",
                            env |-> InjectSentinelsEnv(mappings, env),
                            base |-> env,
                            nmappings |-> Len(mappings)])
    /\ UNCHANGED <<secrets, sources, mappings, storeOut>>
    /\ UNCHANGED nonCredVars

ResolveSentinelsCall ==
    /\ proxyOut' = Some([op |-> "resolve_sentinels",
                         result |-> ResolveSentinels(mappings, secrets, EmptyMap),
                         nmappings |-> Len(mappings)])
    /\ UNCHANGED <<secrets, sources, mappings, storeOut>>
    /\ UNCHANGED nonCredVars

\* replace_sentinels with the map a successful resolve_sentinels returned
ReplaceSentinelsCall ==
    /\ LET r == ResolveSentinels(mappings, secrets, EmptyMap) IN
       /\ r.ok
       /\ \E text \in OutboundTexts, keys \in Orders(DOMAIN r.map) :
             proxyOut' = Some([op |-> "replace_sentinels",
                               text |-> text,
                               resolved |-> r.map,
                               result |-> ReplaceSentinels(text, r.map, keys)])
    /\ UNCHANGED <<secrets, sources, mappings, storeOut>>
    /\ UNCHANGED nonCredVars

NextCred == StoreInsert \/ StoreRemove \/ AddMapping \/ InjectSentinels
            \/ ResolveSentinelsCall \/ ReplaceSentinelsCall

\* The latest mapping, among the first n, that writes the env var k.
LastMappingFor(k, n) ==
    LET idx == {i \in 1..n : mappings[i].env_name = k}
    IN mappings[CHOOSE i \in idx : \A j \in idx : j <= i]

(***************************************************************************)
(* C3: the sandbox never observes a real credential: in the env of the     *)
(* config inject_sentinels returns, every env var of a mapping holds the   *)
(* sentinel of its credential and not the value the store holds for it,    *)
(* whatever add_mapping, resolve_sentinels, replace_sentinels and store    *)
(* calls happened before.                                                  *)
(***************************************************************************)
C3_SandboxSeesOnlySentinels ==
    (IsSome(proxyOut) /\ Unwrap(proxyOut).op = "inject_sentinels") =>
        LET out == Unwrap(proxyOut) IN
        /\ \A i \in 1..out.nmappings :
              LET k == mappings[i].env_name
                  m == LastMappingFor(k, out.nmappings)
              IN /\ k \in DOMAIN out.env
                 /\ out.env[k] = sentinel_for(m.name)
                 /\ \A n \in DOMAIN secrets : out.env[k] # secrets[n].value
        /\ \A k \in DOMAIN out.env :
              (\A i \in 1..out.nmappings : mappings[i].env_name # k)
                  => (k \in DOMAIN out.base /\ out.env[k] = out.base[k])

\* Sentinels were injected for two credentials whose real values are in the
\* store, one of them over an env var the caller's config already set.
C3_Witness ==
    /\ IsSome(proxyOut)
    /\ Unwrap(proxyOut).op = "inject_sentinels"
    /\ Unwrap(proxyOut).nmappings = 2
    /\ mappings[1].name # mappings[2].name
    /\ mappings[1].env_name # mappings[2].env_name
    /\ \A i \in 1..2 : mappings[i].name \in DOMAIN secrets
    /\ DOMAIN Unwrap(proxyOut).base # {}

(***************************************************************************)
(* C19: in the env of the config inject_sentinels returns, the env var of  *)
(* every registered mapping holds that mapping's sentinel,                 *)
(* __CRUSTYCLAW_SENTINEL_<name>__, for any number and order of mappings.   *)
(***************************************************************************)
C19_EveryMappingInjected ==
    (IsSome(proxyOut) /\ Unwrap(proxyOut).op = "inject_sentinels") =>
        LET out == Unwrap(proxyOut) IN
        \A i \in 1..out.nmappings :
            /\ mappings[i].env_name \in DOMAIN out.env
            /\ out.env[mappings[i].env_name] = mappings[i].sentinel
            /\ mappings[i].sentinel =
                  <<"_", "_", "C", "R", "U", "S", "T", "Y", "C", "L", "A", "W", "_",
                    "S", "E", "N", "T", "I", "N", "E", "L", "_">>
                  \o mappings[i].name \o <<"_", "_">>

(***************************************************************************)
(* C20: resolve_sentinels returns an error if the store lacks the          *)
(* credential of any mapping, and only then; otherwise it returns a map    *)
(* that holds, for every mapping, the mapping's sentinel with the value    *)
(* the store holds under the mapping's name, and nothing else.             *)
(***************************************************************************)
C20_ResolveSentinels ==
    [][ResolveSentinelsCall =>
        LET r == Unwrap(proxyOut').result
            n == Len(mappings)
        IN /\ ~r.ok <=> \E i \in 1..n : mappings[i].name \notin DOMAIN secrets
           /\ r.ok =>
                /\ \A i \in 1..n :
                      /\ mappings[i].sentinel \in DOMAIN r.map
                      /\ r.map[mappings[i].sentinel] = secrets[mappings[i].name].value
                /\ DOMAIN r.map = {mappings[i].sentinel : i \in 1..n}]_vars

\* Two mappings for two credentials the store holds under different values
\* were resolved.
C20_Witness ==
    /\ IsSome(proxyOut)
    /\ Unwrap(proxyOut).op = "resolve_sentinels"
    /\ Unwrap(proxyOut).result.ok
    /\ Unwrap(proxyOut).nmappings = 2
    /\ Len(mappings) = 2
    /\ mappings[1].name # mappings[2].name
    /\ \A i \in 1..2 :
          /\ mappings[i].name \in DOMAIN secrets
          /\ Unwrap(proxyOut).result.map[mappings[i].sentinel] = secrets[mappings[i].name].value
    /\ secrets[mappings[1].name].value # secrets[mappings[2].name].value

(***************************************************************************)
(* The operations of the secret store, with what they return.             *)
(***************************************************************************)
\* The SecretStore as the value of its two maps.
Store == [secrets |-> secrets, sources |-> sources]

SecretEntry(name, value, injection) ==
    [name |-> name, value |-> value, injection |-> injection]

\* InjectionMethod::Env { env_name }
InjectEnv(env_name) == [kind |-> "Env", env_name |-> env_name]

\* An insert without the test on the value.
insert_unchecked(store, entry, source) ==
    [kind |-> "Ok",
     store |-> [secrets |-> MapInsert(store.secrets, entry.name, entry),
                sources |-> MapInsert(store.sources, entry.name, source)]]

\* SecretStore::insert: "Ok" or the kind of the SecretError, and the store
\* the call leaves
insert(store, entry, source) ==
    IF entry.value = <<>>
    THEN [kind |-> "EmptyValue", store |-> store]
    ELSE [kind |-> "Ok",
          store |-> [secrets |-> MapInsert(store.secrets, entry.name, entry),
                     sources |-> MapInsert(store.sources, entry.name, source)]]

\* A remove that forgets the secrets map.
remove_source_only(store, name) ==
    [returned |-> IF name \in DOMAIN store.secrets
                  THEN Some(store.secrets[name]) ELSE NoneOpt,
     store |-> [secrets |-> store.secrets,
                sources |-> MapRemove(store.sources, name)]]

\* SecretStore::remove: the Option<SecretEntry> it returns, and the store
\* the call leaves
remove(store, name) ==
    [returned |-> IF name \in DOMAIN store.secrets
                  THEN Some(store.secrets[name]) ELSE NoneOpt,
     store |-> [secrets |-> MapRemove(store.secrets, name),
                sources |-> MapRemove(store.sources, name)]]

\* str::to_uppercase on the characters names are written with
ToUppercase(name) ==
    [i \in 1..Len(name) |->
        CASE name[i] = "a" -> "A"
          [] name[i] = "b" -> "B"
          [] OTHER -> name[i]]

\* format!("CRUSTYCLAW_SECRET_{}", name.to_uppercase())
env_key(name) ==
    <<"C", "R", "U", "S", "T", "Y", "C", "L", "A", "W", "_",
      "S", "E", "C", "R", "E", "T", "_">> \o ToUppercase(name)

\* str::trim_end_matches('\n')
RECURSIVE TrimEndNewlines(_)
TrimEndNewlines(text) ==
    IF text # <<>> /\ text[Len(text)] = "\n"
    THEN TrimEndNewlines(SubSeq(text, 1, Len(text) - 1))
    ELSE text

\* SecretStore::load_from_env, var being what std::env::var finds under the
\* key: NoneOpt when the variable is not set
load_from_env(store, name, injection, var) ==
    IF ~IsSome(var) THEN [kind |-> "EnvNotSet", store |-> store]
    ELSE insert(store, SecretEntry(name, Unwrap(var), injection),
                SourceEnvironment(env_key(name)))

\* SecretStore::load_from_file, content being what read_to_string returns:
\* NoneOpt when the file cannot be read
load_from_file(store, name, path, injection, content) ==
    IF ~IsSome(content) THEN [kind |-> "FileRead", store |-> store]
    ELSE insert(store, SecretEntry(name, TrimEndNewlines(Unwrap(content)), injection),
                SourceFile(path))

\* SecretStore::len, names (in the orders the HashMap may yield its keys)
\* and contains
len == Cardinality(DOMAIN secrets)
names == Orders(DOMAIN secrets)
contains(name) == name \in DOMAIN secrets

\* What the environment and the secret files may hold.
EnvVars == {NoneOpt} \cup {Some(v) : v \in SecretValues}
FileContents ==
    {NoneOpt, Some(<<>>), Some(<<"\n">>), Some(<<"\n", "\n">>),
     Some(<<"s", "k", "\n">>), Some(<<"p", "w">>)}
Paths == {<<"/", "f">>}

\* The names inserted and not removed since, as the calls recorded so far
\* tell.
Held == IF IsSome(storeOut) THEN Unwrap(storeOut).held ELSE {}

\* A call of op for name that was given the value or content given and
\* ended with kind, leaving the store after.
Recorded(op, name, given, kind, after) ==
    /\ secrets' = after.secrets
    /\ sources' = after.sources
    /\ storeOut' = Some([op |-> op, name |-> name, given |-> given, kind |-> kind,
                         unchanged |-> (after = Store),
                         held |-> IF op = "remove" THEN Held \ {name}
                                  ELSE IF kind = "Ok" THEN Held \cup {name}
                                  ELSE Held])

\* SecretStore::insert, its result kept
Insert ==
    /\ \E name \in CredNames, value \in SecretValues, env_name \in EnvNames :
          LET r == insert(Store, SecretEntry(name, value, InjectEnv(env_name)), SourceConfig)
          IN Recorded("insert", name, Some(value), r.kind, r.store)
    /\ UNCHANGED <<mappings, proxyOut>>
    /\ UNCHANGED nonCredVars

\* SecretStore::remove, its result kept
Remove ==
    /\ \E name \in CredNames :
          LET r == remove(Store, name)
          IN Recorded("remove", name, NoneOpt,
                      IF IsSome(r.returned) THEN "Some" ELSE "None", r.store)
    /\ UNCHANGED <<mappings, proxyOut>>
    /\ UNCHANGED nonCredVars

\* SecretStore::load_from_env
LoadFromEnv ==
    /\ \E name \in CredNames, var \in EnvVars, env_name \in EnvNames :
          LET r == load_from_env(Store, name, InjectEnv(env_name), var)
          IN Recorded("load_from_env", name, var, r.kind, r.store)
    /\ UNCHANGED <<mappings, proxyOut>>
    /\ UNCHANGED nonCredVars

\* SecretStore::load_from_file
LoadFromFile ==
    /\ \E name \in CredNames, path \in Paths, content \in FileContents,
          env_name \in EnvNames :
          LET r == load_from_file(Store, name, path, InjectEnv(env_name), content)
          IN Recorded("load_from_file", name, content, r.kind, r.store)
    /\ UNCHANGED <<mappings, proxyOut>>
    /\ UNCHANGED nonCredVars

NextStore == Insert \/ Remove \/ LoadFromEnv \/ LoadFromFile

(***************************************************************************)
(* C17: the store rejects entries with empty values.  An insert of an      *)
(* entry with an empty value, a load_from_env of a variable that is set to *)
(* the empty string and a load_from_file of a file that holds nothing but  *)
(* newlines return the EmptyValue error and leave the store unchanged, and *)
(* no entry in the store ever has an empty value.                          *)
(***************************************************************************)
C17_RejectsEmptyValues ==
    /\ \A n \in DOMAIN secrets : secrets[n].value # <<>>
    /\ IsSome(storeOut) =>
          LET out == Unwrap(storeOut)
              empty ==
                  /\ out.op \in {"insert", "load_from_env", "load_from_file"}
                  /\ IsSome(out.given)
                  /\ \A i \in 1..Len(Unwrap(out.given)) :
                        out.op = "load_from_file" /\ Unwrap(out.given)[i] = "\n"
          IN /\ empty => (out.kind = "EmptyValue" /\ out.unchanged)
             /\ out.kind = "EmptyValue" => empty

\* A file holding one newline was loaded into a store that holds a secret:
\* the call returned EmptyValue and the store is as it was.
C17_Witness ==
    /\ IsSome(storeOut)
    /\ Unwrap(storeOut).op = "load_from_file"
    /\ Unwrap(storeOut).given = Some(<<"\n">>)
    /\ Unwrap(storeOut).kind = "EmptyValue"
    /\ Unwrap(storeOut).unchanged
    /\ DOMAIN secrets # {}
    /\ Unwrap(storeOut).name \in DOMAIN secrets

(***************************************************************************)
(* C18: after any sequence of insert and remove operations, len() and      *)
(* names().len() both equal the number of names inserted and not removed   *)
(* since, and contains(k) is false right after remove(k).                  *)
(***************************************************************************)
C18_LenCountsEntries ==
    /\ len = Cardinality(Held)
    /\ \A q \in names : Len(q) = Cardinality(Held)
    /\ DOMAIN sources = Held
    /\ (IsSome(storeOut) /\ Unwrap(storeOut).op = "remove")
          => ~contains(Unwrap(storeOut).name)

\* One of two secrets held was removed: remove returned the entry, and the
\* store holds the other one.
C18_Witness ==
    /\ IsSome(storeOut)
    /\ Unwrap(storeOut).op = "remove"
    /\ Unwrap(storeOut).kind = "Some"
    /\ ~Unwrap(storeOut).unchanged
    /\ len = 1
    /\ Held = CredNames \ {Unwrap(storeOut).name}

(***************************************************************************)
(* replace_sentinels on the maps resolve_sentinels returns for credentials *)
(* of any name and value: a name may extend another name, and a value may  *)
(* be the name of a credential.                                            *)
(***************************************************************************)
ProxyNames == {<<"a">>, <<"a", "_", "_", "b">>}
ProxyValues == {<<"s", "k">>, <<"p", "w">>, <<"a">>}

\* The stores that hold a secret for each name of N.
StoresOf(N) ==
    {[n \in N |-> SecretEntry(n, v[n], InjectEnv("API_KEY"))] : v \in [N -> ProxyValues]}

\* The mappings add_mapping registers for the names of the sequence ns.
MappingsOf(ns) ==
    [i \in 1..Len(ns) |->
        [name |-> ns[i], sentinel |-> sentinel_for(ns[i]), env_name |-> "API_KEY"]]

\* What a sandbox may send out: the env value inject_sentinels gave it,
\* alone, twice, or wrapped in the head and the tail of a sentinel, or a
\* text without it.
TextsOf(sentinel) ==
    {sentinel,
     <<"h", "i">>,
     <<"k", "=">> \o sentinel \o <<";">> \o sentinel,
     SubSeq(sentinel_for(<<>>), 1, 22) \o sentinel \o <<"_", "_">>}

\* CredentialProxy::replace_sentinels(text, resolved), resolved being what
\* resolve_sentinels returned for the registered mappings
ProxyReplace ==
    /\ \E ns \in Orders(ProxyNames) \cup {<<n>> : n \in ProxyNames} :
          \E store \in StoresOf({ns[i] : i \in 1..Len(ns)}) :
             LET r == ResolveSentinels(MappingsOf(ns), store, EmptyMap) IN
             \E i \in 1..Len(ns), keys \in Orders(DOMAIN r.map) :
                \E text \in TextsOf(MappingsOf(ns)[i].sentinel) :
                   proxyOut' = Some([op |-> "replace_sentinels",
                                     text |-> text,
                                     resolved |-> r.map,
                                     result |-> ReplaceSentinels(text, r.map, keys)])
    /\ UNCHANGED <<secrets, sources, mappings, storeOut>>
    /\ UNCHANGED nonCredVars

NextReplace == ProxyReplace

\* text holds an occurrence of the string s.
Occurs(s, text) ==
    \E i \in 1..(Len(text) - Len(s) + 1) : SubSeq(text, i, i + Len(s) - 1) = s

(***************************************************************************)
(* C21: sentinel round trip: replace_sentinels applied to the sentinel     *)
(* inject_sentinels placed in an env var, with the map resolve_sentinels   *)
(* returned, gives the real value, resolved[sentinel], whatever other      *)
(* mappings are registered.                                                *)
(***************************************************************************)
C21_SentinelRoundTrip ==
    (IsSome(proxyOut) /\ Unwrap(proxyOut).op = "replace_sentinels") =>
        LET out == Unwrap(proxyOut) IN
        out.text \in DOMAIN out.resolved => out.result = out.resolved[out.text]

MaxSighups == 2

EmptyDoc == [k \in {} |-> k]

\* The value of key in doc, or the serde default of the field.
Get(doc, key, default) == IF key \in DOMAIN doc THEN doc[key] ELSE default

\* A text that is well-formed TOML of the types AppConfig declares.
Toml(doc) == [toml |-> TRUE, doc |-> doc]

\* A text toml::from_str rejects.
Unparsable == [toml |-> FALSE, doc |-> EmptyDoc]

PolicyRuleConfig(role, effect) == [role |-> role, effect |-> effect]

SecretEntryConfig(name, source, inject_as, inject_env) ==
    [name |-> name, source |-> source, file_path |-> NoneOpt,
     inject_as |-> inject_as, inject_env |-> inject_env, inject_path |-> NoneOpt]

\* The texts the config file may hold.
ValidTexts ==
    {Toml("daemon.listen_addr" :> "0.0.0.0" @@ "daemon.listen_port" :> 8080),
     Toml("isolation.default_cpu_fraction" :> 100
          @@ "policy.rules" :> <<PolicyRuleConfig("*", "allow")>>
          @@ "secrets.entries" :> <<SecretEntryConfig("api", "env", "env", Some("API_KEY"))>>)}

InvalidTexts ==
    {Unparsable,
     Toml("daemon.listen_port" :> 0),
     Toml("isolation.backend" :> "docker"),
     Toml("isolation.default_cpu_fraction" :> 150),
     Toml("isolation.max_concurrent" :> 0),
     Toml("policy.rules" :> <<PolicyRuleConfig("*", "allow"), PolicyRuleConfig("user", "permit")>>),
     Toml("secrets.entries" :> <<SecretEntryConfig("api", "env", "env", NoneOpt)>>),
     Toml("daemon.listen_port" :> 8080 @@ "auth.mode" :> "ldap")}

Texts == ValidTexts \cup InvalidTexts

\* toml::from_str::<AppConfig>: absent fields take their serde defaults
Parse(text) ==
    IF ~text.toml THEN NoneOpt
    ELSE Some([daemon |-> [listen_addr |-> Get(text.doc, "daemon.listen_addr", "127.0.0.1"),
                           listen_port |-> Get(text.doc, "daemon.listen_port", 9100)],
               policy |-> [default_effect |-> Get(text.doc, "policy.default_effect", "deny"),
                           rules |-> Get(text.doc, "policy.rules", <<>>)],
               isolation |-> [backend |-> Get(text.doc, "isolation.backend", "auto"),
                              default_memory_bytes |->
                                  Get(text.doc, "isolation.default_memory_bytes", 268435456),
                              default_cpu_fraction |->
                                  Get(text.doc, "isolation.default_cpu_fraction", 50),
                              default_network |->
                                  Get(text.doc, "isolation.default_network", "none"),
                              max_concurrent |-> Get(text.doc, "isolation.max_concurrent", 4)],
               secrets |-> [entries |-> Get(text.doc, "secrets.entries", <<>>)],
               auth |-> [mode |-> Get(text.doc, "auth.mode", "local")]])

\* AppConfig::default(): as the parse of an empty document, but the derived
\* Default of PolicyConfig leaves default_effect empty
DefaultAppConfig ==
    [Unwrap(Parse(Toml(EmptyDoc))) EXCEPT !.policy.default_effect = ""]

\* AppConfig::validate, TRUE for Ok(())
Validate(c) ==
    /\ c.daemon.listen_port # 0
    /\ c.daemon.listen_addr # ""
    /\ c.isolation.backend \in {"auto", "apple-vz", "linux-ns", "noop"}
    /\ ~(c.isolation.default_cpu_fraction <= 0 \/ c.isolation.default_cpu_fraction > 100)
    /\ c.isolation.default_memory_bytes # 0
    /\ c.isolation.default_network \in {"none", "host-only", "outbound-only"}
    /\ c.isolation.max_concurrent # 0
    /\ \A i \in 1..Len(c.policy.rules) :
          LET rule == c.policy.rules[i] IN
          /\ ~(rule.effect # "allow" /\ rule.effect # "deny")
          /\ rule.role # ""
    /\ \A i \in 1..Len(c.secrets.entries) :
          LET entry == c.secrets.entries[i] IN
          /\ entry.name # ""
          /\ entry.source \in {"env", "file", "inline"}
          /\ entry.inject_as \in {"env", "file", "both"}
          /\ ~(entry.inject_as \in {"env", "both"} /\ ~IsSome(entry.inject_env))
          /\ ~(entry.inject_as \in {"file", "both"} /\ ~IsSome(entry.inject_path))
          /\ ~(entry.source = "file" /\ ~IsSome(entry.file_path))
    /\ c.auth.mode \in {"local", "token"}

\* Result<AppConfig, ConfigError>
Ok(c) == <<"Ok", c>>
Err(e) == <<"Err", e>>
IsOk(r) == r[1] = "Ok"

\* A bug load could have: the parsed config is returned without validation.
LoadUnvalidated(f) ==
    IF ~IsSome(f) THEN Err("Io")
    ELSE IF ~IsSome(Parse(Unwrap(f))) THEN Err("Parse")
    ELSE Ok(Unwrap(Parse(Unwrap(f))))

\* AppConfig::load of the file f (NoneOpt: no such file)
Load(f) ==
    IF ~IsSome(f) THEN Err("Io")
    ELSE IF ~IsSome(Parse(Unwrap(f))) THEN Err("Parse")
    ELSE IF ~Validate(Unwrap(Parse(Unwrap(f)))) THEN Err("Validation")
    ELSE Ok(Unwrap(Parse(Unwrap(f))))

\* load_config of crustyclaw-cli: defaults when there is no file
LoadConfig(f) == IF IsSome(f) THEN Load(f) ELSE Ok(DefaultAppConfig)

\* A bug reload_config could have: a failed load publishes the defaults.
PublishAlways(tx, r) == Append(tx, IF IsOk(r) THEN r[2] ELSE DefaultAppConfig)

\* The match of reload_config: watch::Sender::send on Ok, nothing on Err.
\* The channel is the sequence of the values sent; the last is the current.
Publish(tx, r) == IF IsOk(r) THEN Append(tx, r[2]) ELSE tx

\* broadcast::Sender::send as seen by the receiver subscribed in run
\* (capacity 1): a second unread message makes the receiver lag.
Send(rx) ==
    CASE rx = "unsubscribed" -> "unsubscribed"
      [] rx = "empty" -> "ready"
      [] OTHER -> "lagged"

Running == pc \in {"select", "reloading"}

Watchers == {"skills"}

InitDaemon ==
    /\ file = NoneOpt
    /\ pc = "off"
    /\ config = NoneOpt
    /\ config_tx = <<>>
    /\ watchers = [w \in Watchers |-> NoneOpt]
    /\ shutdown_rx = "unsubscribed"
    /\ sighup = FALSE
    /\ sigterm = FALSE
    /\ ctrl_c = FALSE
    /\ sighups = 0
    /\ triggered = FALSE
    /\ sent = FALSE
    /\ reload_log = "none"

\* The operator edits, replaces or deletes the config file.
WriteConfigFile ==
    /\ \E f \in {NoneOpt} \cup {Some(t) : t \in Texts} : file' = f
    /\ UNCHANGED <<pc, config, config_tx, watchers, signalVars>>
    /\ UNCHANGED <<reload_log, nonDaemonVars>>

\* cmd_start up to Daemon::with_config_path
CmdStart ==
    /\ pc = "off"
    /\ LET r == LoadConfig(file) IN
       IF IsOk(r)
       THEN /\ config' = Some(r[2])
            /\ config_tx' = <<r[2]>>
            /\ pc' = "created"
       ELSE /\ pc' = "failed"
            /\ UNCHANGED <<config, config_tx>>
    /\ UNCHANGED <<file, watchers, signalVars>>
    /\ UNCHANGED <<reload_log, nonDaemonVars>>

\* Daemon::run up to its first select!: subscribes to the shutdown channel
\* and registers the SIGHUP and SIGTERM streams
Run ==
    /\ pc = "created"
    /\ pc' = "select"
    /\ shutdown_rx' = "empty"
    /\ UNCHANGED <<file, config, config_tx, watchers, sighup, sigterm, ctrl_c,
                   sighups, triggered, sent>>
    /\ UNCHANGED <<reload_log, nonDaemonVars>>

\* Daemon::shutdown
Shutdown ==
    /\ pc \in {"created", "select", "reloading", "done"}
    /\ shutdown_rx' = Send(shutdown_rx)
    /\ sent' = TRUE
    /\ triggered' = (triggered \/ Running)
    /\ UNCHANGED <<file, pc, config, config_tx, watchers, sighup, sigterm, ctrl_c, sighups>>
    /\ UNCHANGED <<reload_log, nonDaemonVars>>

\* SIGHUP reaches the process: the stream created before the loop keeps it.
DeliverSighup ==
    /\ Running
    /\ sighups < MaxSighups
    /\ sighups' = sighups + 1
    /\ sighup' = TRUE
    /\ UNCHANGED <<file, pc, config, config_tx, watchers, shutdown_rx, sigterm, ctrl_c,
                   triggered, sent>>
    /\ UNCHANGED <<reload_log, nonDaemonVars>>

\* SIGTERM reaches the process: the stream created before the loop keeps it.
DeliverSigterm ==
    /\ Running
    /\ sigterm' = TRUE
    /\ triggered' = TRUE
    /\ UNCHANGED <<file, pc, config, config_tx, watchers, shutdown_rx, sighup, ctrl_c,
                   sighups, sent>>
    /\ UNCHANGED <<reload_log, nonDaemonVars>>

\* SIGINT reaches the process.  tokio::signal::ctrl_c() is called anew by
\* every select!, and a listener only sees the signals that arrive while it
\* exists: outside select! there is none.
DeliverCtrlC ==
    /\ Running
    /\ ctrl_c' = (pc = "select")
    /\ triggered' = TRUE
    /\ UNCHANGED <<file, pc, config, config_tx, watchers, shutdown_rx, sighup, sigterm,
                   sighups, sent>>
    /\ UNCHANGED <<reload_log, nonDaemonVars>>

\* select! branch: shutdown_rx.recv() completes (a message or Lagged)
ShutdownBranch ==
    /\ pc = "select"
    /\ shutdown_rx \in {"ready", "lagged"}
    /\ pc' = "done"
    /\ ctrl_c' = FALSE
    /\ UNCHANGED <<file, config, config_tx, watchers, shutdown_rx, sighup, sigterm,
                   sighups, triggered, sent>>
    /\ UNCHANGED <<reload_log, nonDaemonVars>>

\* select! branch: tokio::signal::ctrl_c() completes
CtrlCBranch ==
    /\ pc = "select"
    /\ ctrl_c
    /\ shutdown_rx' = Send(shutdown_rx)
    /\ sent' = TRUE
    /\ pc' = "done"
    /\ ctrl_c' = FALSE
    /\ UNCHANGED <<file, config, config_tx, watchers, sighup, sigterm, sighups, triggered>>
    /\ UNCHANGED <<reload_log, nonDaemonVars>>

\* select! branch: sigterm.recv() completes
SigtermBranch ==
    /\ pc = "select"
    /\ sigterm
    /\ sigterm' = FALSE
    /\ shutdown_rx' = Send(shutdown_rx)
    /\ sent' = TRUE
    /\ pc' = "done"
    /\ ctrl_c' = FALSE
    /\ UNCHANGED <<file, config, config_tx, watchers, sighup, sighups, triggered>>
    /\ UNCHANGED <<reload_log, nonDaemonVars>>

\* select! branch: sighup.recv() completes; the other branch futures, the
\* ctrl_c() listener among them, are dropped before reload_config is awaited
SighupBranch ==
    /\ pc = "select"
    /\ sighup
    /\ sighup' = FALSE
    /\ ctrl_c' = FALSE
    /\ pc' = "reloading"
    /\ UNCHANGED <<file, config, config_tx, watchers, shutdown_rx, sigterm, sighups,
                   triggered, sent>>
    /\ UNCHANGED <<reload_log, nonDaemonVars>>

\* Daemon::reload_config, then back to select!
ReloadConfig ==
    /\ pc = "reloading"
    /\ config_tx' = Publish(config_tx, Load(file))
    /\ reload_log' = (IF IsOk(Load(file)) THEN "Config reloaded successfully"
                      ELSE "Config reload failed, keeping current config")
    /\ pc' = "select"
    /\ UNCHANGED <<file, config, watchers, signalVars>>
    /\ UNCHANGED nonDaemonVars

\* Daemon::config_watcher: a clone of config_rx, which has seen the initial
\* value only
ConfigWatcher ==
    /\ pc \in {"created", "select", "reloading", "done"}
    /\ \E w \in Watchers :
          /\ ~IsSome(watchers[w])
          /\ watchers' = [watchers EXCEPT ![w] = Some([seen |-> 1, borrowed |-> NoneOpt])]
    /\ UNCHANGED <<file, pc, config, config_tx, signalVars>>
    /\ UNCHANGED <<reload_log, nonDaemonVars>>

\* watch::Receiver::changed completes: a value newer than the one seen
WatcherChanged ==
    /\ \E w \in Watchers :
          /\ IsSome(watchers[w])
          /\ Unwrap(watchers[w]).seen < Len(config_tx)
          /\ watchers' = [watchers EXCEPT
                              ![w] = Some([Unwrap(@) EXCEPT !.seen = Len(config_tx)])]
    /\ UNCHANGED <<file, pc, config, config_tx, signalVars>>
    /\ UNCHANGED <<reload_log, nonDaemonVars>>

\* A receiver that hands out the value it was created with.
BorrowInitial(tx) == [version |-> 1, value |-> tx[1]]

\* watch::Receiver::borrow on the channel tx: the value sent last, whether
\* or not the receiver has seen it
Borrow(tx) == [version |-> Len(tx), value |-> tx[Len(tx)]]

\* watch::Receiver::borrow: the current value, whole.  The handlers of the
\* IPC server read the config in the same way, by state.config.borrow().
WatcherBorrow ==
    /\ \E w \in Watchers :
          /\ IsSome(watchers[w])
          /\ watchers' = [watchers EXCEPT
                              ![w] = Some([Unwrap(@) EXCEPT
                                              !.borrowed = Some(Borrow(config_tx))])]
    /\ UNCHANGED <<file, pc, config, config_tx, signalVars>>
    /\ UNCHANGED <<reload_log, nonDaemonVars>>

NextConfig == WriteConfigFile \/ CmdStart \/ Run \/ DeliverSighup \/ SighupBranch
              \/ ReloadConfig \/ ConfigWatcher \/ WatcherChanged \/ WatcherBorrow

\* What the run task does by itself once it can.
DaemonStep == Run \/ ShutdownBranch \/ CtrlCBranch \/ SigtermBranch \/ SighupBranch
              \/ ReloadConfig

NextDaemon == CmdStart \/ Shutdown \/ DeliverSighup \/ DeliverSigterm \/ DeliverCtrlC
              \/ DaemonStep

\* A step of reload_config.
ReloadStep == pc = "reloading" /\ pc' = "select"

(***************************************************************************)
(* C4: a reload with the file missing, unparsable or failing validation    *)
(* leaves the watch channel's value as it was and publishes nothing; a     *)
(* reload with a file that parses and validates publishes the parsed       *)
(* config, which becomes the watched value.                                *)
(***************************************************************************)
C4_ReloadKeepsOrPublishes ==
    [][ReloadStep =>
          IF /\ IsSome(file)
             /\ IsSome(Parse(Unwrap(file)))
             /\ Validate(Unwrap(Parse(Unwrap(file))))
          THEN /\ Len(config_tx') = Len(config_tx) + 1
               /\ config_tx'[Len(config_tx')] = Unwrap(Parse(Unwrap(file)))
          ELSE config_tx' = config_tx]_vars

\* A reload of a valid file has replaced the initial value, and a later
\* reload of a file that fails validation has left the new value in place.
C4_Witness ==
    /\ pc = "select"
    /\ reload_log = "Config reload failed, keeping current config"
    /\ Len(config_tx) = 2
    /\ config_tx[2].daemon.listen_port = 8080
    /\ file = Some(Toml("isolation.max_concurrent" :> 0))

\* The configs a watcher can be handed: the sections all present.
Complete(c) == DOMAIN c = {"daemon", "policy", "isolation", "secrets", "auth"}

(***************************************************************************)
(* C5: every value a config watcher can observe is a complete AppConfig    *)
(* that passes validation, and the watchers see one sequence of published  *)
(* configs in publication order: what a watcher borrows is, whole, the     *)
(* value published under its version, published values are never altered   *)
(* or withdrawn, and a watcher's version never goes back.                  *)
(***************************************************************************)
C5_WatchersSeeValidatedSequence ==
    /\ [](/\ \A i \in 1..Len(config_tx) : Complete(config_tx[i]) /\ Validate(config_tx[i])
          /\ \A w \in Watchers :
                (IsSome(watchers[w]) /\ IsSome(Unwrap(watchers[w]).borrowed)) =>
                    LET b == Unwrap(Unwrap(watchers[w]).borrowed) IN
                    /\ b.version \in 1..Len(config_tx)
                    /\ b.value = config_tx[b.version]
                    /\ Validate(b.value))
    /\ [][/\ Len(config_tx') >= Len(config_tx)
          /\ SubSeq(config_tx', 1, Len(config_tx)) = config_tx
          /\ \A w \in Watchers :
                (IsSome(watchers[w]) /\ IsSome(watchers'[w])) =>
                    /\ Unwrap(watchers'[w]).seen >= Unwrap(watchers[w]).seen
                    /\ (IsSome(Unwrap(watchers[w]).borrowed) =>
                           /\ IsSome(Unwrap(watchers'[w]).borrowed)
                           /\ Unwrap(Unwrap(watchers'[w]).borrowed).version
                                 >= Unwrap(Unwrap(watchers[w]).borrowed).version)]_vars

\* Two reloads have published two different configs, the file is invalid by
\* now, and a watcher that was told of the first reload and borrowed its
\* config has not yet looked at the second.
C5_Witness ==
    /\ Len(config_tx) = 3
    /\ config_tx[2] # config_tx[3]
    /\ config_tx[1] = DefaultAppConfig
    /\ file \in {Some(t) : t \in InvalidTexts}
    /\ \E w \in Watchers :
          /\ IsSome(watchers[w])
          /\ Unwrap(watchers[w]).seen = 2
          /\ IsSome(Unwrap(watchers[w]).borrowed)
          /\ Unwrap(Unwrap(watchers[w]).borrowed).version = 2

(***************************************************************************)
(* C23: missed intermediate updates are collapsed: whenever an observer    *)
(* reads the config, after any number of reloads and whether or not it     *)
(* awaited them, what it obtains is the config published last, which       *)
(* passes validation, and never an older one.                              *)
(***************************************************************************)
C23_ObserversSeeLatest ==
    [][WatcherBorrow =>
          \A w \in Watchers :
              watchers'[w] # watchers[w] =>
                  LET b == Unwrap(Unwrap(watchers'[w]).borrowed) IN
                  /\ b.version = Len(config_tx)
                  /\ b.value = config_tx[Len(config_tx)]
                  /\ Validate(b.value)
                  /\ \A i \in 1..(Len(config_tx) - 1) :
                        config_tx[i] # config_tx[Len(config_tx)] => b.value # config_tx[i]]_vars

\* A watcher that never awaited a change has read the config after two
\* reloads that published different configs: it holds the second one.
C23_Witness ==
    /\ Len(config_tx) = 3
    /\ config_tx[2] # config_tx[3]
    /\ \E w \in Watchers :
          /\ IsSome(watchers[w])
          /\ Unwrap(watchers[w]).seen = 1
          /\ IsSome(Unwrap(watchers[w]).borrowed)
          /\ Unwrap(Unwrap(watchers[w]).borrowed).version = 3
          /\ Unwrap(Unwrap(watchers[w]).borrowed).value = config_tx[3]

(***************************************************************************)
(* C6: once a shutdown trigger (Daemon::shutdown, Ctrl-C or SIGTERM) has    *)
(* occurred while the daemon runs, a ShutdownSignal is sent and the run    *)
(* loop eventually returns.                                                *)
(***************************************************************************)
C6_ShutdownTriggerLeadsToReturn == triggered ~> (sent /\ pc = "done")

\* An event of run's select! is waiting: a message on the shutdown channel,
\* a Ctrl-C seen by the current ctrl_c() listener or a SIGTERM on its stream.
ShutdownEventPending ==
    shutdown_rx \in {"ready", "lagged"} \/ ctrl_c \/ sigterm

(***************************************************************************)
(* C35: after a reload attempt made for a SIGHUP, successful or not, the   *)
(* loop of run keeps going and reacts to every event that arrives later:   *)
(* a later SIGHUP is taken up by another reload unless run returns for a   *)
(* shutdown first, and a later SIGTERM, Ctrl-C or internal shutdown makes  *)
(* run return.  The reload itself never makes run return.                  *)
(***************************************************************************)
C35_ReactsAfterReload ==
    /\ [][(pc = "reloading") => (pc' # "done")]_vars
    /\ (reload_log # "none" /\ Running /\ sighup) ~> (~sighup \/ pc = "done")
    /\ (reload_log # "none" /\ Running /\ ShutdownEventPending) ~> (pc = "done")

(***************************************************************************)
(* C36: a shutdown request is never lost.  Once Daemon::shutdown has been  *)
(* called, at any point after construction, before run has subscribed to   *)
(* the shutdown channel or several times in a row, run returns once it is  *)
(* running.                                                                *)
(***************************************************************************)
C36_ShutdownNeverLost == (sent /\ Running) ~> (pc = "done")

(***************************************************************************)
(* Sandboxes.  Time is counted in ticks from the spawn of a child; an f64  *)
(* is a number of hundredths or NaN; a path is a sequence of characters.   *)
(***************************************************************************)
MaxTime == 3

\* f64 values and the comparisons validate makes: every comparison with
\* NaN is false
F(v) == [nan |-> FALSE, v |-> v]
NaN == [nan |-> TRUE, v |-> 0]
FLe(a, b) == ~a.nan /\ ~b.nan /\ a.v <= b.v
FGt(a, b) == ~a.nan /\ ~b.nan /\ a.v > b.v

\* Path::is_absolute on Unix
IsAbsolute(path) == path # <<>> /\ path[1] = "/"

SharedMount(guest_path) == [guest_path |-> guest_path, access |-> "ReadOnly"]

\* SandboxConfig::new(label).with_workdir("/tmp"), with a timeout or none
BaseConfig(timeout) ==
    [label |-> "skill",
     limits |-> [cpu |-> [max_cores |-> 1, cpu_fraction |-> F(100)],
                 memory |-> [max_bytes |-> 268435456],
                 timeout |-> timeout],
     mounts |-> <<>>]

Timeouts == {NoneOpt, Some(1), Some(2)}

ValidConfigs ==
    {BaseConfig(t) : t \in Timeouts}
    \cup {[BaseConfig(Some(1)) EXCEPT !.limits.cpu.cpu_fraction = F(50),
                                      !.mounts = <<SharedMount(<<"/", "d">>)>>]}

\* Configs that break one or several of the rules.
BrokenConfigs ==
    {[BaseConfig(NoneOpt) EXCEPT !.label = ""],
     [BaseConfig(NoneOpt) EXCEPT !.limits.cpu.max_cores = 0],
     [BaseConfig(NoneOpt) EXCEPT !.limits.cpu.cpu_fraction = F(0)],
     [BaseConfig(NoneOpt) EXCEPT !.limits.cpu.cpu_fraction = F(-50)],
     [BaseConfig(NoneOpt) EXCEPT !.limits.cpu.cpu_fraction = F(150)],
     [BaseConfig(NoneOpt) EXCEPT !.limits.cpu.cpu_fraction = NaN],
     [BaseConfig(NoneOpt) EXCEPT !.limits.memory.max_bytes = 0],
     [BaseConfig(NoneOpt) EXCEPT !.mounts = <<SharedMount(<<"d">>)>>],
     [BaseConfig(NoneOpt) EXCEPT !.mounts = <<SharedMount(<<"/", "d">>), SharedMount(<<>>)>>],
     [BaseConfig(NoneOpt) EXCEPT !.label = "", !.mounts = <<SharedMount(<<"d">>)>>],
     [BaseConfig(NoneOpt) EXCEPT !.limits.memory.max_bytes = 0,
                                 !.limits.cpu.cpu_fraction = NaN]}

SandboxConfigs == ValidConfigs \cup BrokenConfigs

Backends == {"noop", "docker", "linux-ns", "firecracker", "apple-vz"}

\* The backends whose execute spawns a child; the others are stubs.
Spawning == {"noop", "docker"}

Commands == {<<>>, <<"sleep", "10">>, <<"echo", "hi">>}

Tasks == {"t1", "t2"}

\* SandboxConfig::validate: "Ok" or the kind of the IsolationError
ValidateSandbox(c) ==
    IF c.label = "" THEN "Create"
    ELSE IF FLe(c.limits.cpu.cpu_fraction, F(0)) \/ FGt(c.limits.cpu.cpu_fraction, F(100))
    THEN "Create"
    ELSE IF c.limits.cpu.max_cores = 0 THEN "Create"
    ELSE IF c.limits.memory.max_bytes = 0 THEN "Create"
    ELSE IF \E i \in 1..Len(c.mounts) : ~IsAbsolute(c.mounts[i].guest_path)
    THEN "FsViolation"
    ELSE "Ok"

\* Sandbox::new: "Ok" or the kind of the IsolationError
New(c, available) ==
    IF ValidateSandbox(c) # "Ok" THEN ValidateSandbox(c)
    ELSE IF ~available THEN "UnsupportedBackend"
    ELSE "Ok"

\* Result<SandboxResult, IsolationError>
Returned(kind, dur, result) == [kind |-> kind, dur |-> dur, result |-> result]

\* A bug the timeout arm could have: what the child wrote so far is returned.
OnElapsedPartial(dur, ticks) ==
    Returned("Ok", 0, Some([exit_code |-> -1, stdout |-> ticks, elapsed |-> ticks]))

\* The Err(_) arm of the match on tokio::time::timeout
OnElapsed(dur, ticks) == Returned("Timeout", dur, NoneOpt)

Idle ==
    [pc |-> "idle", command |-> <<>>, timeout |-> NoneOpt, backend |-> "",
     elapsed |-> 0, child |-> "none", exited_at |-> NoneOpt, ret |-> Returned("", 0, NoneOpt)]

InitSandbox ==
    /\ isolation = DefaultAppConfig.isolation
    /\ sandbox = NoneOpt
    /\ execs = [t \in Tasks |-> Idle]

\* The isolation section of a config file that loads
LoadIsolationConfig ==
    /\ \E text \in {Toml(EmptyDoc), Toml("isolation.max_concurrent" :> 1),
                    Toml("isolation.max_concurrent" :> 0)} :
          /\ IsOk(Load(Some(text)))
          /\ isolation' = Load(Some(text))[2].isolation
    /\ UNCHANGED <<sandbox, execs>>
    /\ UNCHANGED nonSandboxVars

\* Sandbox::new(config, backend), no execution of the previous sandbox
\* being in progress
SandboxNew ==
    /\ \A t \in Tasks : execs[t].pc # "waiting"
    /\ \E c \in SandboxConfigs, backend \in Backends, available \in BOOLEAN :
          /\ backend = "noop" => available
          /\ sandbox' = Some([kind |-> New(c, available), config |-> c,
                              backend |-> backend, available |-> available])
    /\ execs' = [t \in Tasks |-> Idle]
    /\ UNCHANGED isolation
    /\ UNCHANGED nonSandboxVars

\* Sandbox::execute and the backend's execute up to its first await
Execute ==
    /\ IsSome(sandbox)
    /\ Unwrap(sandbox).kind = "Ok"
    /\ \E t \in Tasks, command \in Commands, spawned \in BOOLEAN :
          LET sb == Unwrap(sandbox)
              call == [Idle EXCEPT !.command = command,
                                   !.timeout = sb.config.limits.timeout,
                                   !.backend = sb.backend]
          IN /\ execs[t].pc # "waiting"
             /\ execs' = [execs EXCEPT ![t] =
                   IF command = <<>>
                   THEN [call EXCEPT !.pc = "returned",
                                     !.ret = Returned("Execution", 0, NoneOpt)]
                   ELSE IF sb.backend \notin Spawning
                   THEN [call EXCEPT !.pc = "returned",
                                     !.ret = Returned("UnsupportedBackend", 0, NoneOpt)]
                   ELSE IF ~spawned
                   THEN [call EXCEPT !.pc = "returned",
                                     !.ret = Returned("Execution", 0, NoneOpt)]
                   ELSE [call EXCEPT !.pc = "waiting", !.child = "running"]]
    /\ UNCHANGED <<isolation, sandbox>>
    /\ UNCHANGED nonSandboxVars

\* The child process exits by itself, during the call or after it.
ChildExit ==
    /\ \E t \in Tasks :
          /\ execs[t].child = "running"
          /\ execs' = [execs EXCEPT ![t] =
                [execs[t] EXCEPT !.child = "exited",
                                 !.exited_at = IF execs[t].pc = "waiting"
                                               THEN Some(execs[t].elapsed)
                                               ELSE NoneOpt]]
    /\ UNCHANGED <<isolation, sandbox>>
    /\ UNCHANGED nonSandboxVars

\* child.wait_with_output() completes: Ok(Ok(output)) or Ok(Err(e))
WaitOutput ==
    /\ \E t \in Tasks, waited \in BOOLEAN :
          /\ execs[t].pc = "waiting"
          /\ execs[t].child = "exited"
          /\ execs' = [execs EXCEPT ![t] =
                [execs[t] EXCEPT
                    !.pc = "returned",
                    !.ret = IF waited
                            THEN Returned("Ok", 0,
                                     Some([exit_code |-> 0, stdout |-> execs[t].elapsed,
                                           elapsed |-> execs[t].elapsed]))
                            ELSE Returned("Execution", 0, NoneOpt)]]
    /\ UNCHANGED <<isolation, sandbox>>
    /\ UNCHANGED nonSandboxVars

\* tokio::time::timeout elapses with the child still running: the wait is
\* dropped, the child is neither killed nor waited for
TimeoutElapsed ==
    /\ \E t \in Tasks :
          /\ execs[t].pc = "waiting"
          /\ execs[t].child = "running"
          /\ IsSome(execs[t].timeout)
          /\ execs[t].elapsed >= Unwrap(execs[t].timeout)
          /\ execs' = [execs EXCEPT ![t] =
                [execs[t] EXCEPT
                    !.pc = "returned",
                    !.ret = OnElapsed(Unwrap(execs[t].timeout), execs[t].elapsed)]]
    /\ UNCHANGED <<isolation, sandbox>>
    /\ UNCHANGED nonSandboxVars

\* A call whose wait or timeout is ready: its task is polled before time
\* moves on.
Ready(e) ==
    /\ e.pc = "waiting"
    /\ e.child = "exited" \/ (IsSome(e.timeout) /\ e.elapsed >= Unwrap(e.timeout))

\* One tick of the clock.
Tick ==
    /\ \E t \in Tasks : execs[t].pc = "waiting"
    /\ \A t \in Tasks : ~Ready(execs[t]) /\ execs[t].elapsed < MaxTime
    /\ execs' = [t \in Tasks |->
                    IF execs[t].pc = "waiting"
                    THEN [execs[t] EXCEPT !.elapsed = @ + 1]
                    ELSE execs[t]]
    /\ UNCHANGED <<isolation, sandbox>>
    /\ UNCHANGED nonSandboxVars

NextSandbox == LoadIsolationConfig \/ SandboxNew \/ Execute \/ ChildExit \/ WaitOutput
               \/ TimeoutElapsed \/ Tick

(***************************************************************************)
(* C7: every execution honours limits.timeout on every backend: a call     *)
(* with the timeout d never waits past d, a call whose child had not       *)
(* exited within d returns Timeout(d) with the configured d and without a  *)
(* SandboxResult, and a SandboxResult is only ever that of a child that    *)
(* exited within d.                                                        *)
(***************************************************************************)
C7_TimeoutHonoured ==
    \A t \in Tasks :
        LET e == execs[t] IN
        IsSome(e.timeout) =>
            LET d == Unwrap(e.timeout) IN
            /\ e.pc = "waiting" => e.elapsed <= d
            /\ (e.pc = "returned" /\ e.child # "none" /\ ~IsSome(e.exited_at)) =>
                  /\ e.ret.kind = "Timeout"
                  /\ e.ret.dur = d
                  /\ e.ret.dur = Unwrap(Unwrap(sandbox).config.limits.timeout)
                  /\ ~IsSome(e.ret.result)
            /\ (e.pc = "returned" /\ IsSome(e.ret.result)) =>
                  /\ IsSome(e.exited_at)
                  /\ Unwrap(e.exited_at) <= d
                  /\ Unwrap(e.ret.result).elapsed <= d
            /\ (e.pc = "returned" /\ e.backend \notin Spawning) =>
                  /\ e.child = "none"
                  /\ ~IsSome(e.ret.result)

\* A call on the Docker backend with a timeout of two ticks has returned
\* Timeout, its child not having exited, while another call got its result.
C7_Witness ==
    /\ IsSome(sandbox)
    /\ Unwrap(sandbox).backend = "docker"
    /\ execs["t1"].pc = "returned"
    /\ execs["t1"].timeout = Some(2)
    /\ execs["t1"].ret.kind = "Timeout"
    /\ execs["t1"].child = "running"
    /\ execs["t2"].pc = "returned"
    /\ execs["t2"].ret.kind = "Ok"

(***************************************************************************)
(* C8: whenever execute has returned Timeout, the child that execution     *)
(* spawned is no longer running.                                           *)
(***************************************************************************)
C8_TimeoutKillsChild ==
    \A t \in Tasks :
        (execs[t].pc = "returned" /\ execs[t].ret.kind = "Timeout")
            => execs[t].child # "running"

(***************************************************************************)
(* C9: at no time are more than max_concurrent executions in progress.     *)
(***************************************************************************)
C9_AtMostMaxConcurrent ==
    Cardinality({t \in Tasks : execs[t].pc = "waiting"}) <= isolation.max_concurrent

(***************************************************************************)
(* C37: the availability of a backend is settled at construction.  Once    *)
(* Sandbox::new has succeeded for a backend, no execute on that sandbox    *)
(* fails with UnsupportedBackend.                                          *)
(***************************************************************************)
C37_AvailableNeverUnsupported ==
    (IsSome(sandbox) /\ Unwrap(sandbox).kind = "Ok") =>
        \A t \in Tasks :
            execs[t].pc = "returned" => execs[t].ret.kind # "UnsupportedBackend"

\* The validation rules as the specification lists them.
FailsValidation(c) ==
    \/ c.label = ""
    \/ c.limits.cpu.max_cores = 0
    \/ ~(FGt(c.limits.cpu.cpu_fraction, F(0)) /\ FLe(c.limits.cpu.cpu_fraction, F(100)))
    \/ c.limits.memory.max_bytes = 0
    \/ \E i \in 1..Len(c.mounts) : ~IsAbsolute(c.mounts[i].guest_path)

(***************************************************************************)
(* C10: for every SandboxConfig that fails validation (empty label,        *)
(* max_cores = 0, cpu_fraction outside (0,1], max_bytes = 0, a mount whose *)
(* guest_path is not absolute), Sandbox::new returns a Create error,       *)
(* whatever the backend.                                                   *)
(***************************************************************************)
C10_InvalidConfigIsCreateError ==
    (IsSome(sandbox) /\ FailsValidation(Unwrap(sandbox).config))
        => Unwrap(sandbox).kind = "Create"

(***************************************************************************)
(* C11: for every backend whose available() is false, Sandbox::new returns *)
(* UnsupportedBackend, whatever config is passed with it.                  *)
(***************************************************************************)
C11_UnavailableIsUnsupported ==
    (IsSome(sandbox) /\ ~Unwrap(sandbox).available)
        => Unwrap(sandbox).kind = "UnsupportedBackend"

(***************************************************************************)
(* C12: an execute call with an empty argv returns a Create error and runs *)
(* no command.                                                             *)
(***************************************************************************)
C12_EmptyArgvIsCreateError ==
    \A t \in Tasks :
        (execs[t].pc = "returned" /\ execs[t].command = <<>>)
            => (execs[t].ret.kind = "Create" /\ execs[t].child = "none")

(***************************************************************************)
(* Policy evaluation against the engine built from the config              *)
(* (AppConfig::build_policy_engine, called by handle_policy_eval).         *)
(***************************************************************************)
\* The [policy] sections of the configs the daemon may hold; the last is
\* that of AppConfig::default().
EvalPolicies == PolicyConfigs \cup {[rules |-> <<>>, default_effect |-> ""]}

EvalRoles == {"alice", "admin"}
EvalActions == {"auth", "read"}
EvalResources == {"session"}

\* The decision as handle_policy_eval writes it into the response.
DecisionStr(decision) ==
    CASE decision = "Allowed" -> "allowed"
      [] decision = "Denied" -> "denied"
      [] decision = "NoMatch" -> "no_match"

\* handle_policy_eval: the engine is built from the current config and the
\* request is evaluated on it; evaluate sorts the rules and scans them.
\* The handler keeps nothing between two requests, so one request is followed.
HandlePolicyEval ==
    /\ lastEval = NoneOpt
    /\ \E policy \in EvalPolicies, role \in EvalRoles, action \in EvalActions,
          resource \in EvalResources :
         LET engine == BuildPolicyEngine(policy)
             decision == Scan(SortByPriority(engine), role, action, resource)
         IN  lastEval' = Some([op |-> "policy_eval", policy |-> policy,
                               role |-> role, action |-> action, resource |-> resource,
                               engine |-> engine, decision |-> decision,
                               response |-> [decision |-> DecisionStr(decision),
                                             rule_count |-> Len(engine)]])
    /\ UNCHANGED <<rules, sorted, dirty>>
    /\ UNCHANGED nonPolicyVars

NextEval == HandlePolicyEval

\* No rule of the [[policy.rules]] table matches the request.
NoConfiguredMatch(e) ==
    \A i \in 1..Len(e.policy.rules) :
        ~Matches(e.policy.rules[i], e.role, e.action, e.resource)

\* The first rules of the engine are the configured ones, in their order.
ConfiguredFirst(e) ==
    \A i \in 1..Len(e.policy.rules) :
        /\ i <= Len(e.engine)
        /\ e.engine[i].role = e.policy.rules[i].role
        /\ e.engine[i].action = e.policy.rules[i].action
        /\ e.engine[i].resource = e.policy.rules[i].resource
        /\ e.engine[i].priority = e.policy.rules[i].priority
        /\ e.engine[i].effect = "Allow" <=> e.policy.rules[i].effect = "allow"

(***************************************************************************)
(* C28: when default_effect is "allow" the built engine holds the          *)
(* configured rules followed by one catch-all rule, allow * * * at         *)
(* priority 0, and a request no configured rule matches evaluates to       *)
(* Allowed; otherwise the engine holds the configured rules only and such  *)
(* a request evaluates to NoMatch.                                         *)
(***************************************************************************)
C28_DefaultEffect ==
    (IsSome(lastEval) /\ Unwrap(lastEval).op = "policy_eval") =>
        LET e == Unwrap(lastEval)
            n == Len(e.policy.rules)
        IN  /\ ConfiguredFirst(e)
            /\ e.response.rule_count = Len(e.engine)
            /\ IF e.policy.default_effect = "allow"
               THEN /\ Len(e.engine) = n + 1
                    /\ e.engine[n + 1] = Rule("*", "*", "*", "Allow", 0)
                    /\ NoConfiguredMatch(e) => e.decision = "Allowed"
               ELSE /\ Len(e.engine) = n
                    /\ NoConfiguredMatch(e) => e.decision = "NoMatch"

\* A deny rule and an allow rule are configured, neither matches the
\* request, and the catch-all allows it.
C28_Witness ==
    /\ IsSome(lastEval)
    /\ Unwrap(lastEval).op = "policy_eval"
    /\ Unwrap(lastEval).policy.default_effect = "allow"
    /\ Len(Unwrap(lastEval).policy.rules) = 2
    /\ Unwrap(lastEval).policy.rules[1].effect = "deny"
    /\ NoConfiguredMatch(Unwrap(lastEval))
    /\ Unwrap(lastEval).response = [decision |-> "allowed", rule_count |-> 3]

(***************************************************************************)
(* The IPC server and its client (ipc/server.rs, ipc/client.rs).           *)
(*                                                                         *)
(* sock is what the file system holds at the socket path: "none", "stale"  *)
(* (a file no server listens on) or "bound" (the socket of the listener).  *)
(* One client issues one request at a time; a request is in flight while   *)
(* its pc is "sent" or "responded".                                        *)
(***************************************************************************)
Methods == {"stop", "health", "status"}

IdleClient == [method |-> "", pc |-> "idle", existed |-> FALSE, result |-> NoneOpt]

InFlight == client.pc \in {"sent", "responded"}

InitIpc ==
    /\ sock = "none"
    /\ server = "off"
    /\ ipc_rx = "unsubscribed"
    /\ client = IdleClient

\* serve up to axum::serve: the unlink of an existing file, the bind.
\* may_write says whether the process may change the entries of the
\* directory of the socket path: remove_file and bind fail when it may not.
Serve ==
    /\ server \in {"off", "exited_ok", "exited_err"}
    /\ \E may_write \in BOOLEAN :
         IF ~may_write
         THEN /\ server' = "exited_err"
              /\ UNCHANGED <<sock, ipc_rx>>
         ELSE /\ server' = "serving"
              /\ sock' = "bound"
              /\ ipc_rx' = "empty"
    /\ UNCHANGED client
    /\ UNCHANGED nonIpcVars

\* IpcClient::daemon_available: socket_path.exists().
daemon_assumed == TRUE

daemon_available == sock # "none"

\* IpcClient::request up to the connect: NotRunning when no file exists.
Request ==
    /\ client.pc \in {"idle", "done"}
    /\ \E method \in Methods :
         client' = IF ~daemon_available
                   THEN [method |-> method, pc |-> "done", existed |-> sock # "none",
                         result |-> Some(Err("NotRunning"))]
                   ELSE [method |-> method, pc |-> "checked", existed |-> sock # "none",
                         result |-> NoneOpt]
    /\ UNCHANGED <<sock, server, ipc_rx>>
    /\ UNCHANGED nonIpcVars

\* IpcClient::request from UnixStream::connect to send_request: the connect
\* succeeds when a listener accepts on the socket.
Connect ==
    /\ client.pc = "checked"
    /\ client' = IF sock = "bound" /\ server = "serving"
                 THEN [client EXCEPT !.pc = "sent"]
                 ELSE [client EXCEPT !.pc = "done", !.result = Some(Err("Connect"))]
    /\ UNCHANGED <<sock, server, ipc_rx>>
    /\ UNCHANGED nonIpcVars

StopResponse == [acknowledged |-> TRUE, message |-> "Shutdown initiated"]

\* handle_stop: the send on the shutdown channel, then the response.
HandleStop ==
    /\ client.pc = "sent"
    /\ client.method = "stop"
    /\ ipc_rx' = Send(ipc_rx)
    /\ client' = [client EXCEPT !.pc = "responded", !.result = Some(Ok(StopResponse))]
    /\ UNCHANGED <<sock, server>>
    /\ UNCHANGED nonIpcVars

\* handle_health and handle_status: a response, no effect on the server.
HandleHealth ==
    /\ client.pc = "sent"
    /\ client.method = "health"
    /\ client' = [client EXCEPT !.pc = "responded",
                                !.result = Some(Ok([status |-> "ok"]))]
    /\ UNCHANGED <<sock, server, ipc_rx>>
    /\ UNCHANGED nonIpcVars

HandleStatus ==
    /\ client.pc = "sent"
    /\ client.method = "status"
    /\ client' = [client EXCEPT !.pc = "responded",
                                !.result = Some(Ok([running |-> TRUE]))]
    /\ UNCHANGED <<sock, server, ipc_rx>>
    /\ UNCHANGED nonIpcVars

\* IpcClient::request from the response on: the status is a success, the
\* body is returned and parsed by the typed method.
ReceiveResponse ==
    /\ client.pc = "responded"
    /\ client' = [client EXCEPT !.pc = "done"]
    /\ UNCHANGED <<sock, server, ipc_rx>>
    /\ UNCHANGED nonIpcVars

\* The future given to with_graceful_shutdown: shutdown_rx.recv() returns
\* (a signal or Lagged), the listener is dropped, the connections drain.
GracefulShutdown ==
    /\ server = "serving"
    /\ ipc_rx \in {"ready", "lagged"}
    /\ server' = "draining"
    /\ ipc_rx' = "unsubscribed"
    /\ UNCHANGED <<sock, client>>
    /\ UNCHANGED nonIpcVars

\* serve after axum::serve returned: remove_file(socket_path).ok(), Ok(()).
ServeReturn ==
    /\ server = "draining"
    /\ ~InFlight
    /\ sock' = "none"
    /\ server' = "exited_ok"
    /\ UNCHANGED <<ipc_rx, client>>
    /\ UNCHANGED nonIpcVars

\* The process of the server is killed: nothing of serve runs any more,
\* the socket file stays, a request in flight fails on its connection.
Kill ==
    /\ server \in {"serving", "draining"}
    /\ server' = "off"
    /\ sock' = IF sock = "bound" THEN "stale" ELSE sock
    /\ ipc_rx' = "unsubscribed"
    /\ client' = IF InFlight
                 THEN [client EXCEPT !.pc = "done", !.result = Some(Err("Request"))]
                 ELSE client
    /\ UNCHANGED nonIpcVars

NextIpc ==
    \/ Serve \/ Request \/ Connect \/ HandleStop \/ HandleHealth \/ HandleStatus
    \/ ReceiveResponse \/ GracefulShutdown \/ ServeReturn \/ Kill

(***************************************************************************)
(* C24: every POST /stop is answered with the success response and then   *)
(* shutdown is initiated: while a ShutdownSignal waits on the shutdown     *)
(* channel, the /stop request that sent it has been answered with          *)
(* {acknowledged: true, message}.                                          *)
(***************************************************************************)
C24_AnsweredThenShutdown ==
    ipc_rx \in {"ready", "lagged"}
        => (client.method = "stop" /\ client.pc = "done"
            /\ client.result = Some(Ok(StopResponse)))

(***************************************************************************)
(* C25: whenever serve has returned, no file exists at the socket path.    *)
(***************************************************************************)
C25_NoSocketAfterExit ==
    server \in {"exited_ok", "exited_err"} => sock = "none"

(***************************************************************************)
(* C26: a request made while no file exists at the socket path fails with *)
(* NotRunning, and no request made while a file exists does: its failures  *)
(* are other errors.                                                       *)
(***************************************************************************)
C26_NotRunningWithoutSocket ==
    /\ (client.pc \in {"checked", "sent", "responded"}) => client.existed
    /\ client.pc = "done" =>
         (~client.existed <=> client.result = Some(Err("NotRunning")))

C26_Witness ==
    /\ server = "exited_ok"
    /\ client.method = "stop"
    /\ client.result = Some(Err("NotRunning"))

(***************************************************************************)
(* C34: Daemon::config() returns the current configuration: whenever the   *)
(* daemon holds a config, it equals the config published last on the       *)
(* watch channel.  Daemon::config() returns the field config.              *)
(***************************************************************************)
C34_ConfigIsCurrent ==
    (IsSome(config) /\ config_tx # <<>>) => Unwrap(config) = config_tx[Len(config_tx)]

(***************************************************************************)
(* C29: whenever the run loop of the daemon is active, the IPC server is   *)
(* serving on the socket.  No step of cmd_start, Daemon::with_config_path  *)
(* or Daemon::run calls serve, so no action of the daemon changes server.  *)
(***************************************************************************)
C29_ServingWhileRunning ==
    Running => (server = "serving" /\ sock = "bound")

(***************************************************************************)
(* The message bus of the daemon (daemon.rs): a tokio broadcast channel   *)
(* of Envelopes.  bus is every envelope sent, in the order the channel     *)
(* took them; the channel retains the last BusCapacity of them.  A         *)
(* receiver reads at its cursor; one that fell behind the retained         *)
(* envelopes gets Lagged and continues at the oldest retained one.         *)
(***************************************************************************)
MaxMsgs == 2
BusCapacity == 2

Senders == {"a", "b"}
Subscribers == {"s1", "s2"}

Envelope(sender, seq) == [sender |-> sender, seq |-> seq]

SentBy(p) == Cardinality({i \in 1..Len(bus) : bus[i].sender = p})

InitBus ==
    /\ bus = <<>>
    /\ subs = [s \in Subscribers |-> [next |-> 0, got |-> <<>>, lagged |-> FALSE]]

\* message_sender().send(envelope): the channel appends the envelope.  The
\* daemon keeps _message_rx, so the channel always has a receiver.
BroadcastSendFront(b, e) == <<e>> \o b

BroadcastSend(b, e) == Append(b, e)

\* message_subscriber(): a receiver that sees what is sent from now on.
MessageSubscriber(s) ==
    /\ subs[s].next = 0
    /\ subs' = [subs EXCEPT ![s].next = Len(bus) + 1]
    /\ UNCHANGED bus
    /\ UNCHANGED nonBusVars

\* A component sends its next envelope through its clone of the sender.
SendEnvelope(p) ==
    /\ SentBy(p) < MaxMsgs
    /\ bus' = BroadcastSend(bus, Envelope(p, SentBy(p) + 1))
    /\ UNCHANGED subs
    /\ UNCHANGED nonBusVars

OldestRetained == IF Len(bus) > BusCapacity THEN Len(bus) - BusCapacity + 1 ELSE 1

\* Receiver::recv when it does not wait: Lagged or the envelope at the cursor.
RecvEnvelope(s) ==
    /\ subs[s].next # 0
    /\ subs[s].next <= Len(bus)
    /\ subs' = IF subs[s].next < OldestRetained
               THEN [subs EXCEPT ![s].next = OldestRetained, ![s].lagged = TRUE]
               ELSE [subs EXCEPT ![s].next = @ + 1,
                                 ![s].got = Append(@, bus[subs[s].next])]
    /\ UNCHANGED bus
    /\ UNCHANGED nonBusVars

NextBus ==
    \/ \E s \in Subscribers : MessageSubscriber(s)
    \/ \E p \in Senders : SendEnvelope(p)
    \/ \E s \in Subscribers : RecvEnvelope(s)

(***************************************************************************)
(* C27: every subscriber receives the envelopes of any one sender in the  *)
(* order that sender sent them.                                            *)
(***************************************************************************)
C27_OrderedPerSender ==
    \A s \in Subscribers :
        \A i, j \in 1..Len(subs[s].got) :
            (i < j /\ subs[s].got[i].sender = subs[s].got[j].sender)
                => subs[s].got[i].seq < subs[s].got[j].seq

\* Two subscribers hold both envelopes of sender a around one of sender b,
\* one of them after a lag.
C27_Witness ==
    /\ subs["s1"].got = <<Envelope("a", 1), Envelope("b", 1), Envelope("a", 2)>>
    /\ subs["s2"].lagged
    /\ subs["s2"].got = <<Envelope("a", 2), Envelope("b", 2)>>

(***************************************************************************)
(* Staging of file-injected secrets (secrets.rs, stage_file_injections).   *)
(*                                                                         *)
(* staging is the directory as every process of the host sees it: per      *)
(* name NoneOpt or the mode and the content of the file.  A mode is the    *)
(* set of its permission bits.  The call takes one step per file system    *)
(* operation: std::fs::write, then std::fs::set_permissions.               *)
(***************************************************************************)
StageNames == {"tls", "tok"}

StageContent(n) == IF n = "tls" THEN <<"p", "e", "m">> ELSE <<"s", "k">>

AllBits == {"ur", "uw", "gr", "gw", "or", "ow"}

\* The umask of the process: 0o022 or 0o077.
Umasks == {{"gw", "ow"}, {"gr", "gw", "or", "ow"}}

\* Permissions::from_mode(0o400).
OwnerReadOnly == {"ur"}

InitStage ==
    /\ staging = [n \in StageNames |-> NoneOpt]
    /\ stage = [pc |-> "idle", left |-> <<>>, umask |-> {}, staged |-> <<>>,
                ret |-> NoneOpt]

\* std::fs::write(path, content): creates the file with 0o666 less the
\* umask, or truncates an existing one and keeps its mode; fails on an
\* existing file the owner may not write.
FsWrite(f, umask, content) ==
    IF IsSome(f)
    THEN IF "uw" \in Unwrap(f).mode
         THEN Ok(Some([mode |-> Unwrap(f).mode, content |-> content]))
         ELSE Err("FileWrite")
    ELSE Ok(Some([mode |-> AllBits \ umask, content |-> content]))

\* std::fs::set_permissions(path, perms).
SetPermissions(f, perms) == Some([Unwrap(f) EXCEPT !.mode = perms])

\* stage_file_injections is called: file_injections() lists the secrets
\* injected as files in the iteration order of the HashMap.
StageFileInjections ==
    /\ stage.pc \in {"idle", "returned"}
    /\ \E S \in SUBSET StageNames, umask \in Umasks :
         \E order \in Orders(S) :
           stage' = [pc |-> IF order = <<>> THEN "returned" ELSE "write",
                     left |-> order, umask |-> umask, staged |-> <<>>,
                     ret |-> IF order = <<>> THEN Some(Ok(<<>>)) ELSE NoneOpt]
    /\ UNCHANGED staging
    /\ UNCHANGED nonStageVars

\* The write of the loop body: the secret goes to staging_dir/<secret_name>.
StageWrite ==
    /\ stage.pc = "write"
    /\ LET n == Head(stage.left)
           w == FsWrite(staging[n], stage.umask, StageContent(n))
       IN  IF IsOk(w)
           THEN /\ staging' = [staging EXCEPT ![n] = w[2]]
                /\ stage' = [stage EXCEPT !.pc = "chmod"]
           ELSE /\ UNCHANGED staging
                /\ stage' = [stage EXCEPT !.pc = "returned", !.ret = Some(w)]
    /\ UNCHANGED nonStageVars

\* The rest of the loop body on Unix: set_permissions(0o400), the push.
StageSetPermissions ==
    /\ stage.pc = "chmod"
    /\ LET n == Head(stage.left)
           staged == Append(stage.staged, n)
       IN  /\ staging' = [staging EXCEPT ![n] = SetPermissions(@, OwnerReadOnly)]
           /\ stage' = IF Tail(stage.left) = <<>>
                       THEN [stage EXCEPT !.pc = "returned", !.left = <<>>,
                                          !.staged = staged, !.ret = Some(Ok(staged))]
                       ELSE [stage EXCEPT !.pc = "write", !.left = Tail(@),
                                          !.staged = staged]
    /\ UNCHANGED nonStageVars

\* The container is gone and its staged files are removed by the operator.
Unstage ==
    /\ stage.pc = "returned"
    /\ \E n \in StageNames :
         /\ IsSome(staging[n])
         /\ staging' = [staging EXCEPT ![n] = NoneOpt]
    /\ UNCHANGED stage
    /\ UNCHANGED nonStageVars

NextStage == StageFileInjections \/ StageWrite \/ StageSetPermissions \/ Unstage

(***************************************************************************)
(* C30: every file of the staging directory that holds a secret has mode  *)
(* 0o400; no staged secret file exists with broader permissions.           *)
(***************************************************************************)
C30_StagedOwnerReadOnly ==
    \A n \in StageNames :
        IsSome(staging[n]) => Unwrap(staging[n]).mode = OwnerReadOnly

(***************************************************************************)
(* Trust-based backend selection (TrustBasedSelector, called by            *)
(* cmd_isolation).  The selector, the tiers and the isolation levels are   *)
(* not part of the sources at hand; they follow the specification of the   *)
(* isolation engine.  available() is that of the five backends.            *)
(***************************************************************************)
TrustTiers == {"untrusted", "sandboxed", "trusted", "system"}

\* A host: its operating system and what is installed on it.
Hosts == [os : {"linux", "macos", "other"}, firecracker : BOOLEAN,
          docker : BOOLEAN, vz : BOOLEAN]

\* SandboxBackend::available of each backend on a host.
Available(backend, host) ==
    CASE backend = "noop" -> TRUE
      [] backend = "linux-ns" -> host.os = "linux"
      [] backend = "docker" -> host.docker
      [] backend = "firecracker" -> host.os = "linux" /\ host.firecracker
      [] backend = "apple-vz" -> host.os = "macos" /\ host.vz

\* IsolationLevel of a backend: None < Namespace < Container < MicroVM.
Level(backend) ==
    CASE backend = "noop" -> 0
      [] backend = "linux-ns" -> 1
      [] backend = "docker" -> 2
      [] backend \in {"firecracker", "apple-vz"} -> 3

\* TrustBasedSelector::required_level.
RequiredLevel(tier) ==
    CASE tier = "system" -> 0
      [] tier = "trusted" -> 1
      [] tier = "sandboxed" -> 2
      [] tier = "untrusted" -> 3

\* The available backends that meet the level the tier requires.
Candidates_(tier, host) ==
    {b \in Backends : Available(b, host) /\ Level(b) >= RequiredLevel(tier)}

Weakest(cands) == {b \in cands : \A c \in cands : Level(c) >= Level(b)}

Strongest(cands) == {b \in cands : \A c \in cands : Level(c) <= Level(b)}

\* TrustBasedSelector::select: the backends it may return.  Where no
\* available backend meets the level, the Trusted tier falls back to noop;
\* for the other tiers the specification names no backend, and none of
\* them is noop.
SelectOutcomes(tier, host) ==
    IF Candidates_(tier, host) # {} THEN Strongest(Candidates_(tier, host))
    ELSE IF tier = "trusted" THEN {"noop"}
    ELSE Backends \ {"noop"}

InitTrust == trustOut = NoneOpt

\* cmd_isolation with default_trust_tier set: selector.select(trust).
Select ==
    /\ \E host \in Hosts, tier \in TrustTiers :
         \E backend \in SelectOutcomes(tier, host) :
           trustOut' = Some([host |-> host, tier |-> tier, backend |-> backend])
    /\ UNCHANGED nonTrustVars

NextTrust == Select

DockerEnvs == {EmptyMap, "A" :> "1", "A" :> "1" @@ "B" :> "2"}

Mount(host_path, guest_path, access) ==
    [host_path |-> host_path, guest_path |-> guest_path, access |-> access]

DockerMounts ==
    {<<>>, <<Mount("/h", "/g", "ReadOnly")>>,
     <<Mount("/h", "/g", "ReadOnly"), Mount("/d", "/data", "ReadWrite")>>}

DockerConfigs ==
    [cpu_fraction : {"1.00"}, max_mb : {"512"}, allow_swap : BOOLEAN,
     max_pids : {NoneOpt, Some("64")},
     network : {"None", "HostOnly", "OutboundOnly", "AllowList"},
     workdir : {"/w"}, env : DockerEnvs, mounts : DockerMounts, label : {"skill"}]

RECURSIVE Concat(_)
Concat(ss) == IF ss = <<>> THEN <<>> ELSE Head(ss) \o Concat(Tail(ss))

\* The -e arguments of the loop over config.env, visited in order.
EnvArgs(env, order) ==
    Concat([i \in 1..Len(order) |-> <<<<"-e">>, <<order[i], "=", env[order[i]]>>>>])

\* DockerSandboxBackend::build_args; order is the iteration order of
\* config.env in this call.
build_args(default_image, cfg, command, order) ==
    <<<<"run">>, <<"--rm">>, <<"--init">>>>
    \o <<<<"--cpus">>, <<cfg.cpu_fraction>>>>
    \o <<<<"--memory">>, <<cfg.max_mb, "m">>>>
    \o (IF ~cfg.allow_swap THEN <<<<"--memory-swap">>, <<cfg.max_mb, "m">>>> ELSE <<>>)
    \o (IF IsSome(cfg.max_pids)
        THEN <<<<"--pids-limit">>, <<Unwrap(cfg.max_pids)>>>> ELSE <<>>)
    \o <<<<"--network">>,
         <<CASE cfg.network = "None" -> "none"
             [] cfg.network = "HostOnly" -> "host"
             [] OTHER -> "bridge">>>>
    \o <<<<"--workdir">>, <<cfg.workdir>>>>
    \o EnvArgs(cfg.env, order)
    \o Concat([i \in 1..Len(cfg.mounts) |->
                 <<<<"-v">>,
                   <<cfg.mounts[i].host_path, ":", cfg.mounts[i].guest_path,
                     IF cfg.mounts[i].access = "ReadOnly" THEN ":ro" ELSE "">>>>])
    \o <<<<"--label">>, <<"crustyclaw.sandbox=", cfg.label>>>>
    \o <<<<default_image>>>>
    \o [i \in 1..Len(command) |-> <<command[i]>>]

InitDocker == dockerOut = NoneOpt

\* Two invocations of build_args with equal configs, images and argvs.  The
\* two configs are the same value or two values built separately.
BuildArgsTwice ==
    /\ dockerOut = NoneOpt
    /\ \E cfg \in DockerConfigs, same_map \in BOOLEAN :
         \E first \in Orders(DOMAIN cfg.env), second \in Orders(DOMAIN cfg.env) :
           /\ same_map => first = second
           /\ dockerOut' = Some([config |-> cfg, same_map |-> same_map,
                                 first |-> build_args("alpine:latest", cfg,
                                                      <<"echo", "hi">>, first),
                                 second |-> build_args("alpine:latest", cfg,
                                                       <<"echo", "hi">>, second)])
    /\ UNCHANGED nonDockerVars

NextDocker == BuildArgsTwice

(***************************************************************************)
(* C32: two build_args invocations with identical config, image and argv  *)
(* produce identical argument lists.                                       *)
(***************************************************************************)
C32_BuildArgsDeterministic ==
    IsSome(dockerOut) => Unwrap(dockerOut).first = Unwrap(dockerOut).second

(***************************************************************************)
(* Envelope ids (message.rs).  Envelope::new and Envelope::reply each      *)
(* declare a static NEXT_ID of their own, both starting at 1; fetch_add    *)
(* is atomic, so the calls of all threads take the values of a counter     *)
(* one after the other.                                                    *)
(***************************************************************************)
MaxEnvelopes == 5

InitEnvelopes ==
    envelopes = [new_next |-> 1, reply_next |-> 1, made |-> <<>>]

\* Envelope::new(channel, body).
EnvelopeNew ==
    /\ Len(envelopes.made) < MaxEnvelopes
    /\ envelopes' = [envelopes EXCEPT
           !.new_next = @ + 1,
           !.made = Append(@, [id |-> envelopes.new_next, direction |-> "Inbound",
                               reply_to |-> 0])]
    /\ UNCHANGED nonEnvelopeVars

\* original.reply(body) on an envelope created before.
EnvelopeReply ==
    /\ Len(envelopes.made) < MaxEnvelopes
    /\ \E i \in 1..Len(envelopes.made) :
         envelopes' = [envelopes EXCEPT
             !.reply_next = @ + 1,
             !.made = Append(@, [id |-> envelopes.reply_next, direction |-> "Outbound",
                                 reply_to |-> i])]
    /\ UNCHANGED nonEnvelopeVars

NextEnvelopes == EnvelopeNew \/ EnvelopeReply

(***************************************************************************)
(* C33: any two envelopes created in one process have different ids; in   *)
(* particular the id of a reply differs from the id of the envelope it     *)
(* replies to.                                                             *)
(***************************************************************************)
C33_UniqueIds ==
    \A i, j \in 1..Len(envelopes.made) :
        i # j => envelopes.made[i].id # envelopes.made[j].id

(***************************************************************************)
(* The token-bucket rate limiter of crustyclaw-signal.  Time is counted in *)
(* milliseconds, as check does by Duration::as_millis; a refill interval   *)
(* is at least one millisecond.                                            *)
(***************************************************************************)
MaxTokens == 2
MaxInterval == 2
MaxNow == 3

LimitSenders == {"alice", "bob"}

RateLimitConfigs ==
    [max_tokens : 0..MaxTokens, refill_interval : 1..MaxInterval]

Min(a, b) == IF a <= b THEN a ELSE b

\* check, the entry ... or_insert: the sender's bucket, a full one if absent
Entry(buckets, sender, cfg, now) ==
    IF IsSome(buckets[sender]) THEN Unwrap(buckets[sender])
    ELSE [tokens |-> cfg.max_tokens, last_refill |-> now]

\* check, the refill step: whole intervals elapsed since last_refill
Refilled(bucket, cfg, now) ==
    LET refills == (now - bucket.last_refill) \div cfg.refill_interval IN
    IF refills > 0
    THEN [tokens |-> Min(bucket.tokens + refills, cfg.max_tokens), last_refill |-> now]
    ELSE bucket

\* A cleanup that keeps the empty buckets only.
RetainEmpty(bucket, max) == bucket.tokens = 0

\* cleanup, the predicate of retain: buckets that are not full are kept
Retain(bucket, max) == bucket.tokens < max

InitLimiter == limiter = NoneOpt

\* RateLimiter::new
RateLimiterNew ==
    /\ limiter = NoneOpt
    /\ \E cfg \in RateLimitConfigs :
          limiter' = Some([config |-> cfg,
                           buckets |-> [p \in LimitSenders |-> NoneOpt],
                           now |-> 0,
                           first |-> [p \in LimitSenders |-> NoneOpt],
                           allowed |-> [p \in LimitSenders |-> 0],
                           denied |-> [p \in LimitSenders |-> FALSE],
                           cleaned |-> FALSE])
    /\ UNCHANGED nonLimiterVars

\* The clock read by Instant::now advances by a millisecond.
Advance ==
    /\ IsSome(limiter)
    /\ Unwrap(limiter).now < MaxNow
    /\ limiter' = Some([Unwrap(limiter) EXCEPT !.now = @ + 1])
    /\ UNCHANGED nonLimiterVars

\* RateLimiter::check(sender); first, allowed and denied record the time of
\* the sender's first check and the results returned to it
Check(sender) ==
    /\ IsSome(limiter)
    /\ LET l == Unwrap(limiter)
           b == Refilled(Entry(l.buckets, sender, l.config, l.now), l.config, l.now)
           ok == b.tokens > 0
       IN limiter' = Some([l EXCEPT
              !.buckets[sender] = Some(IF ok THEN [b EXCEPT !.tokens = @ - 1] ELSE b),
              !.first[sender] = IF IsSome(@) THEN @ ELSE Some(l.now),
              !.allowed[sender] = IF ok THEN @ + 1 ELSE @,
              !.denied[sender] = @ \/ ~ok])
    /\ UNCHANGED nonLimiterVars

\* RateLimiter::cleanup
Cleanup ==
    /\ IsSome(limiter)
    /\ LET l == Unwrap(limiter) IN
       limiter' = Some([l EXCEPT
              !.buckets = [p \in LimitSenders |->
                              IF IsSome(@[p]) /\ Retain(Unwrap(@[p]), l.config.max_tokens)
                              THEN @[p] ELSE NoneOpt],
              !.cleaned = TRUE])
    /\ UNCHANGED nonLimiterVars

NextLimiter == RateLimiterNew \/ Advance \/ Cleanup \/ \E p \in LimitSenders : Check(p)

MaxCapacity == 2
MaxEvents == 4

LogMessages == {"one", "two", "three"}

\* LogBuffer::push.  Vec::remove(0) panics on an empty vector; the panic
\* leaves the entries as they were and unwinds through the mutex guard.
Push(buf, message) ==
    IF Len(buf.entries) >= buf.capacity
    THEN IF buf.entries = <<>>
         THEN [buf EXCEPT !.panicked = TRUE, !.poisoned = TRUE]
         ELSE [buf EXCEPT !.entries = Append(Tail(@), message)]
    ELSE [buf EXCEPT !.entries = Append(@, message)]

\* The last n elements of a sequence, all of it when it is shorter.
LastN(seq, n) ==
    IF Len(seq) <= n THEN seq ELSE SubSeq(seq, Len(seq) - n + 1, Len(seq))

InitLog == logbuf = NoneOpt

\* LogCollector::new(capacity)
LogCollectorNew ==
    /\ logbuf = NoneOpt
    /\ \E capacity \in 0..MaxCapacity :
          logbuf' = Some([capacity |-> capacity, entries |-> <<>>, events |-> <<>>,
                          panicked |-> FALSE, poisoned |-> FALSE])
    /\ UNCHANGED nonLogVars

\* Layer::on_event: the event is pushed if the mutex can be locked, and
\* dropped if the mutex is poisoned
OnEvent ==
    /\ IsSome(logbuf)
    /\ Len(Unwrap(logbuf).events) < MaxEvents
    /\ \E message \in LogMessages :
          LET buf == [Unwrap(logbuf) EXCEPT !.events = Append(@, message)] IN
          logbuf' = Some(IF buf.poisoned THEN buf ELSE Push(buf, message))
    /\ UNCHANGED nonLogVars

NextLog == LogCollectorNew \/ OnEvent

(***************************************************************************)
(* C39: the log collector is a bounded ring buffer for every capacity, 0   *)
(* included: logging an event never fails, the buffer holds at most        *)
(* capacity entries, and they are the most recent events in arrival order. *)
(***************************************************************************)
C39_RingBuffer ==
    IsSome(logbuf) =>
        LET buf == Unwrap(logbuf) IN
        /\ ~buf.panicked
        /\ Len(buf.entries) <= buf.capacity
        /\ buf.entries = LastN(buf.events, buf.capacity)

(***************************************************************************)
(* The scrollable panels of the TUI (logs and messages).  scroll_offset    *)
(* counts entries up from the bottom; the entries are their number.        *)
(***************************************************************************)
MaxEntries == 5
MaxScroll == 3

PanelKinds == {"logs", "messages"}

\* usize::saturating_sub
SaturatingSub(a, b) == IF a >= b THEN a - b ELSE 0

InitPanel == panel = NoneOpt

\* LogsPanel::new and MessagesPanel::new
PanelNew ==
    /\ panel = NoneOpt
    /\ \E kind \in PanelKinds :
          panel' = Some([kind |-> kind, entries |-> 0, scroll_offset |-> 0,
                         auto_follow |-> TRUE, last |-> "new"])
    /\ UNCHANGED nonPanelVars

\* LogsPanel::refresh: the entries are read again from the log reader
Refresh ==
    /\ IsSome(panel)
    /\ Unwrap(panel).kind = "logs"
    /\ \E count \in 0..MaxEntries :
          panel' = Some([Unwrap(panel) EXCEPT
                            !.entries = count,
                            !.scroll_offset = IF Unwrap(panel).auto_follow THEN 0 ELSE @,
                            !.last = "refresh"])
    /\ UNCHANGED nonPanelVars

\* MessagesPanel::push
PanelPush ==
    /\ IsSome(panel)
    /\ Unwrap(panel).kind = "messages"
    /\ Unwrap(panel).entries < MaxEntries
    /\ panel' = Some([Unwrap(panel) EXCEPT
                         !.entries = @ + 1,
                         !.scroll_offset = IF Unwrap(panel).auto_follow THEN 0 ELSE @,
                         !.last = "push"])
    /\ UNCHANGED nonPanelVars

\* PanelState::scroll_down(n)
ScrollDown(n) ==
    /\ IsSome(panel)
    /\ panel' = Some(IF Unwrap(panel).scroll_offset >= n
                     THEN [Unwrap(panel) EXCEPT !.scroll_offset = @ - n,
                                                !.last = "scroll_down"]
                     ELSE [Unwrap(panel) EXCEPT !.scroll_offset = 0,
                                                !.auto_follow = TRUE,
                                                !.last = "scroll_down"])
    /\ UNCHANGED nonPanelVars

\* PanelState::scroll_up(n)
ScrollUp(n) ==
    /\ IsSome(panel)
    /\ panel' = Some([Unwrap(panel) EXCEPT
                         !.auto_follow = FALSE,
                         !.scroll_offset = Min(@ + n, SaturatingSub(Unwrap(panel).entries, 1)),
                         !.last = "scroll_up"])
    /\ UNCHANGED nonPanelVars

\* PanelState::scroll_to_top
ScrollToTop ==
    /\ IsSome(panel)
    /\ panel' = Some([Unwrap(panel) EXCEPT
                         !.auto_follow = FALSE,
                         !.scroll_offset = SaturatingSub(Unwrap(panel).entries, 1),
                         !.last = "scroll_to_top"])
    /\ UNCHANGED nonPanelVars

\* PanelState::scroll_to_bottom
ScrollToBottom ==
    /\ IsSome(panel)
    /\ panel' = Some([Unwrap(panel) EXCEPT
                         !.scroll_offset = 0,
                         !.auto_follow = TRUE,
                         !.last = "scroll_to_bottom"])
    /\ UNCHANGED nonPanelVars

NextPanel == PanelNew \/ Refresh \/ PanelPush \/ ScrollToTop \/ ScrollToBottom
             \/ \E n \in 1..MaxScroll : ScrollDown(n) \/ ScrollUp(n)

(***************************************************************************)
(* C40: whenever a scroll_down call leaves scroll_offset at 0, the bottom  *)
(* of the view, auto_follow is true afterwards.                            *)
(***************************************************************************)
C40_BottomFollows ==
    (IsSome(panel) /\ Unwrap(panel).last = "scroll_down"
                   /\ Unwrap(panel).scroll_offset = 0)
        => Unwrap(panel).auto_follow

(***************************************************************************)
(* Specifications.                                                         *)
(***************************************************************************)
Init ==
    /\ InitPolicy /\ InitAuth /\ InitCred /\ InitDaemon /\ InitSandbox
    /\ InitIpc /\ InitBus /\ InitStage
    /\ InitTrust /\ InitDocker /\ InitEnvelopes /\ InitLimiter /\ InitLog /\ InitPanel

SpecPolicy == Init /\ [][NextPolicy]_vars

SpecAuth == Init /\ [][NextAuth]_vars

SpecCli == Init /\ [][NextCli]_vars

SpecCred == Init /\ [][NextCred]_vars

SpecStore == Init /\ [][NextStore]_vars

SpecReplace == Init /\ [][NextReplace]_vars

SpecConfig == Init /\ [][NextConfig]_vars

SpecSandbox == Init /\ [][NextSandbox]_vars

SpecEval == Init /\ [][NextEval]_vars

SpecTrust == Init /\ [][NextTrust]_vars

SpecDocker == Init /\ [][NextDocker]_vars

SpecEnvelopes == Init /\ [][NextEnvelopes]_vars

SpecLimiter == Init /\ [][NextLimiter]_vars

SpecLog == Init /\ [][NextLog]_vars

SpecPanel == Init /\ [][NextPanel]_vars

SpecIpc == Init /\ [][NextIpc]_vars

SpecBus == Init /\ [][NextBus]_vars

SpecStage == Init /\ [][NextStage]_vars

\* The run task is scheduled whenever a branch of its select! is ready.
SpecDaemon == Init /\ [][NextDaemon]_vars /\ WF_vars(DaemonStep)

====
